---- MODULE Spec2Model ----
(***************************************************************************)
(* Model of jellyfin-renamer: episode pattern detection (parser.py),       *)
(* title validation (cleaner.py), filename building and file operations    *)
(* (operations.py).  Strings are sequences of one-character strings; the   *)
(* regular expressions of the source are kept as pattern trees and run by  *)
(* a backtracking matcher that returns the matches in Python's priority    *)
(* order.                                                                  *)
(***************************************************************************)
EXTENDS Integers, Sequences, FiniteSets, TLC

VARIABLES
    \* one call of get_season_episode
    filename,     \* the filename given to get_season_episode
    anime_mode,   \* the anime_mode flag of the call
    info,         \* the EpisodeInfo returned (None when no match)
    nfrag,        \* number of fragments the filename is made of
    ppc,          \* "build" while the filename is put together, "parsed" after the call, "titled" after get_episode_title, "transformed" after the whole transformation
    \* one call of EpisodeInfo.format_code
    code_info,    \* the EpisodeInfo formatted
    code,         \* the string returned ("" before the call)
    \* a RenameSession and one call of build_filename
    base_path,    \* session.base_path, a sequence of path segments
    options,      \* session.options
    series_name,  \* session.series_name
    episode_info, \* build_filename's episode_info
    title,        \* build_filename's title ("" for None)
    extension,    \* build_filename's extension
    new_filename, \* the filename returned
    bpc,          \* "new" before the session exists, "session" after __post_init__, "built" after build_filename, "detected" after detect_series_name
    seen_titles,  \* session.seen_titles
    \* calls of validate_episode_title within one session
    vcall,        \* the last call: candidate, season, title returned, whether the candidate passed the rules, whether it was the first to pass with its season and normalized title
    vhist,        \* the pairs of season and normalized title of the candidates that passed the rules
    ncalls,       \* number of calls so far
    \* one run of main
    disk,         \* the file system: path of every file |-> [id, title]
    disk0,        \* the file system when main starts
    case_sensitive, \* whether the file system tells names apart that differ in letter case only
    video_files,  \* the list find_video_files returned
    idx,          \* position of process_directory in video_files
    results,      \* session.results
    ridx,         \* position of main in the results it prints
    pc,           \* "start", "process", "print", "done"; "args", "options" around the options of main
    exit_code,    \* what main returned (-1 before it returns)
    \* clean_title applied to a fragment, and again to what it returned
    title_part,   \* the title part of the fragment
    tech_tail,    \* what follows the title part in the fragment
    cleaned,      \* clean_title(fragment)
    recleaned,    \* clean_title(clean_title(fragment))
    cpc,          \* "new", "cleaned" after the first call, "recleaned" after the second; "protected", "restored" around the ellipsis
    \* the command line of main and the year-free series name of a folder
    args_format,  \* the value of --format (NotGiven when the option is absent)
    year_free_name \* detect_series_name_no_year(base_path) ("" before the call)

parseVars == <<filename, anime_mode, info, nfrag, ppc>>
codeVars == <<code_info, code>>
buildVars == <<base_path, options, series_name, episode_info, title, extension, new_filename, bpc>>
validateVars == <<vcall, vhist, ncalls>>
runVars == <<disk, disk0, case_sensitive, video_files, idx, results, ridx, pc, exit_code>>
cleanVars == <<title_part, tech_tail, cleaned, recleaned, cpc>>
moreVars == <<args_format, year_free_name>>
vars == <<parseVars, codeVars, buildVars, seen_titles, validateVars, runVars, cleanVars, moreVars>>

\* ------------------------------------------------------------------------
\* Characters
\* ------------------------------------------------------------------------
UpperSeq == <<"A","B","C","D","E","F","G","H","I","J","K","L","M",
              "N","O","P","Q","R","S","T","U","V","W","X","Y","Z">>
LowerSeq == <<"a","b","c","d","e","f","g","h","i","j","k","l","m",
              "n","o","p","q","r","s","t","u","v","w","x","y","z">>
DigitSeq == <<"0","1","2","3","4","5","6","7","8","9">>

Upper == {UpperSeq[k] : k \in 1..26}
LowerCh == {LowerSeq[k] : k \in 1..26}
Digit == {DigitSeq[k] : k \in 1..10}
Space == {" ", "\t", "\n", "\r", "\f"}
Word == Upper \cup LowerCh \cup Digit \cup {"_"}

\* str.lower() on one character
lower(c) == IF c \in Upper THEN LowerSeq[CHOOSE k \in 1..26 : UpperSeq[k] = c] ELSE c

\* str.lower() on a string
lowerStr(s) == [k \in 1..Len(s) |-> lower(s[k])]

DigitVal(c) == (CHOOSE k \in 1..10 : DigitSeq[k] = c) - 1

\* int(text) for a string of decimal digits
RECURSIVE int(_)
int(s) == IF Len(s) = 0 THEN 0
          ELSE 10 * int(SubSeq(s, 1, Len(s) - 1)) + DigitVal(s[Len(s)])

\* ------------------------------------------------------------------------
\* Regular expressions: pattern trees
\* ------------------------------------------------------------------------
Inf == -1
Chr(c) == [t |-> "chr", c |-> c]
Set(S) == [t |-> "set", s |-> S]
NSet(S) == [t |-> "nset", s |-> S]
Dot == [t |-> "any"]
Cat(rs) == [t |-> "cat", r |-> rs]
Alt(rs) == [t |-> "alt", r |-> rs]
Rep(r, lo, hi) == [t |-> "rep", r |-> <<r>>, lo |-> lo, hi |-> hi]
Opt(r) == Rep(r, 0, 1)
Star(r) == Rep(r, 0, Inf)
Plus(r) == Rep(r, 1, Inf)
Grp(n, r) == [t |-> "grp", n |-> n, r |-> <<r>>]
Bol == [t |-> "bol"]
Eol == [t |-> "eol"]
Wb == [t |-> "wb"]
La(r) == [t |-> "la", r |-> <<r>>]
NLa(r) == [t |-> "nla", r |-> <<r>>]
Lit(w) == [t |-> "lit", w |-> w]

NoGroups == [n \in 1..3 |-> <<-1, -1>>]

Min(S) == CHOOSE x \in S : \A y \in S : x <= y
Max(S) == CHOOSE x \in S : \A y \in S : x >= y

\* The concatenation of the sequences ss[lo], ..., ss[hi]
RECURSIVE FlatRange(_, _, _)
FlatRange(ss, lo, hi) ==
    IF lo > hi THEN <<>>
    ELSE IF lo = hi THEN ss[lo]
    ELSE FlatRange(ss, lo, (lo + hi) \div 2) \o FlatRange(ss, (lo + hi) \div 2 + 1, hi)

Flatten(ss) == FlatRange(ss, 1, Len(ss))

\* Patterns that consume exactly one character, and whether c is such a character
IsChar(re) == re.t \in {"chr", "set", "nset", "any"}

CharOk(re, c, ic) ==
    CASE re.t = "chr" -> IF ic THEN lower(c) = lower(re.c) ELSE c = re.c
      [] re.t = "set" -> IF ic THEN \E x \in re.s : lower(x) = lower(c) ELSE c \in re.s
      [] re.t = "nset" -> IF ic THEN \A x \in re.s : lower(x) # lower(c) ELSE c \notin re.s
      [] re.t = "any" -> c # "\n"

\* M gives the matches of pattern re in s that start after the first i
\* characters, as [e: end offset, g: group spans], in the order in which
\* a backtracking matcher tries them (greedy repetition, leftmost
\* alternative first); ic is re.IGNORECASE.
RECURSIVE M(_, _, _, _, _), MCat(_, _, _, _, _, _), MRep(_, _, _, _, _, _, _, _)

\* greedy repetition of a one-character pattern: the longest run first
MRunMost(hi, s, i) == IF hi = Inf \/ hi > Len(s) - i THEN Len(s) - i ELSE hi
MRunLen(r, most, s, i, ic) == Max({n \in 0..most : \A k \in 1..n : CharOk(r, s[i + k], ic)})
MRunFrom(run, lo, i, g) ==
    IF run < lo THEN <<>>
    ELSE [j \in 1..(run - lo + 1) |-> [e |-> i + run - j + 1, g |-> g]]
MRun(r, lo, hi, s, i, g, ic) == MRunFrom(MRunLen(r, MRunMost(hi, s, i), s, i, ic), lo, i, g)

\* the matches res of a group's pattern, with the span of group n recorded
MGroup(res, n, i) ==
    [k \in 1..Len(res) |-> [e |-> res[k].e, g |-> [res[k].g EXCEPT ![n] = <<i, res[k].e>>]]]

\* the continuations of MCat and MRep after the matches res of one pattern
MCatRest(res, rs, k, s, ic) ==
    Flatten([j \in 1..Len(res) |-> MCat(rs, k + 1, s, res[j].e, res[j].g, ic)])
MRepMore(res, r, lo, hi, n, s, i, ic) ==
    Flatten([j \in 1..Len(res) |->
                IF res[j].e > i THEN MRep(r, lo, hi, n + 1, s, res[j].e, res[j].g, ic) ELSE <<>>])

M(re, s, i, g, ic) ==
    CASE IsChar(re) ->
           IF i < Len(s) /\ CharOk(re, s[i + 1], ic) THEN <<[e |-> i + 1, g |-> g]>> ELSE <<>>
      [] re.t = "lit" ->
           IF /\ i + Len(re.w) <= Len(s)
              /\ \A k \in 1..Len(re.w) : CharOk(Chr(re.w[k]), s[i + k], ic)
           THEN <<[e |-> i + Len(re.w), g |-> g]>> ELSE <<>>
      [] re.t = "cat" -> MCat(re.r, 1, s, i, g, ic)
      [] re.t = "alt" -> Flatten([k \in 1..Len(re.r) |-> M(re.r[k], s, i, g, ic)])
      [] re.t = "rep" ->
           IF IsChar(re.r[1]) THEN MRun(re.r[1], re.lo, re.hi, s, i, g, ic)
           ELSE MRep(re.r[1], re.lo, re.hi, 0, s, i, g, ic)
      [] re.t = "grp" -> MGroup(M(re.r[1], s, i, g, ic), re.n, i)
      [] re.t = "bol" -> IF i = 0 THEN <<[e |-> i, g |-> g]>> ELSE <<>>
      [] re.t = "eol" -> IF i = Len(s) THEN <<[e |-> i, g |-> g]>> ELSE <<>>
      [] re.t = "wb" ->
           IF (i > 0 /\ s[i] \in Word) # (i < Len(s) /\ s[i + 1] \in Word)
           THEN <<[e |-> i, g |-> g]>> ELSE <<>>
      [] re.t = "la" -> IF M(re.r[1], s, i, g, ic) # <<>> THEN <<[e |-> i, g |-> g]>> ELSE <<>>
      [] re.t = "nla" -> IF M(re.r[1], s, i, g, ic) = <<>> THEN <<[e |-> i, g |-> g]>> ELSE <<>>

MCat(rs, k, s, i, g, ic) ==
    IF k > Len(rs) THEN <<[e |-> i, g |-> g]>>
    ELSE MCatRest(M(rs[k], s, i, g, ic), rs, k, s, ic)

MRep(r, lo, hi, n, s, i, g, ic) ==
    (IF hi = Inf \/ n < hi THEN MRepMore(M(r, s, i, g, ic), r, lo, hi, n, s, i, ic) ELSE <<>>)
    \o (IF n >= lo THEN <<[e |-> i, g |-> g]>> ELSE <<>>)

NoMatch == [found |-> FALSE, s |-> -1, e |-> -1, g |-> NoGroups]

\* the match at offset p whose end and groups are those of r
MatchOf(p, r) == [found |-> TRUE, s |-> p, e |-> r.e, g |-> r.g]
firstMatch(res, p) == IF res = <<>> THEN NoMatch ELSE MatchOf(p, res[1])

\* re.match(pattern, s): the first match that starts at offset p, if any
matchAt(re, s, p, ic) ==
    IF p > Len(s) THEN NoMatch ELSE firstMatch(M(re, s, p, NoGroups, ic), p)

\* the match at the smallest of the offsets hits
matchAtFirst(hits, re, s, ic) == IF hits = {} THEN NoMatch ELSE matchAt(re, s, Min(hits), ic)

\* pattern.search(s, p): the leftmost match that starts at offset p or later
searchFrom(re, s, p, ic) ==
    IF p > Len(s) THEN NoMatch
    ELSE matchAtFirst({q \in p..Len(s) : M(re, s, q, NoGroups, ic) # <<>>}, re, s, ic)

search(re, s, ic) == searchFrom(re, s, 0, ic)

\* match.group(n)
group(m, s, n) == SubSeq(s, m.g[n][1] + 1, m.g[n][2])

\* ------------------------------------------------------------------------
\* parser.py
\* ------------------------------------------------------------------------
D == Set(Digit)
Sep == Set(Space \cup {"_", ".", "-"})

\* PATTERN_SXXEXX without the optional separator between season and episode
PATTERN_SXXEXX_nosep ==
    Cat(<<Set({"S", "s"}), Grp(1, Rep(D, 1, 2)), Set({"E", "e"}), Grp(2, Rep(D, 1, 3))>>)

PATTERN_SXXEXX ==
    Cat(<<Set({"S", "s"}), Grp(1, Rep(D, 1, 2)), Star(Sep), Set({"E", "e"}), Grp(2, Rep(D, 1, 3))>>)

PATTERN_NXNN == Cat(<<Grp(1, Rep(D, 1, 2)), Chr("x"), Grp(2, Rep(D, 2, 3))>>)

PATTERN_EXX == Cat(<<Set({"E", "e"}), Grp(1, Rep(D, 1, 3))>>)

PATTERN_ANIME ==
    Cat(<<Chr("-"), Plus(Set(Space)), Grp(1, Rep(D, 1, 3)), Star(Set(Space)), Set({"[", "(", "."})>>)

EpisodeInfo(season, episode) == [season |-> season, episode |-> episode]
None == [season |-> -1, episode |-> -1]

\* get_season_episode without the final anime fallback
get_season_episode_nofallback(name, anime) ==
    LET ma == search(PATTERN_ANIME, name, FALSE)
        ms == search(PATTERN_SXXEXX, name, TRUE)
        mn == search(PATTERN_NXNN, name, TRUE)
        me == search(PATTERN_EXX, name, TRUE)
    IN IF anime /\ ma.found THEN EpisodeInfo(1, int(group(ma, name, 1)))
       ELSE IF ms.found THEN EpisodeInfo(int(group(ms, name, 1)), int(group(ms, name, 2)))
       ELSE IF mn.found THEN EpisodeInfo(int(group(mn, name, 1)), int(group(mn, name, 2)))
       ELSE IF me.found THEN EpisodeInfo(1, int(group(me, name, 1)))
       ELSE None

get_season_episode(name, anime) ==
    LET ma == search(PATTERN_ANIME, name, FALSE)
        ms == search(PATTERN_SXXEXX, name, TRUE)
        mn == search(PATTERN_NXNN, name, TRUE)
        me == search(PATTERN_EXX, name, TRUE)
    IN IF anime /\ ma.found THEN EpisodeInfo(1, int(group(ma, name, 1)))
       ELSE IF ms.found THEN EpisodeInfo(int(group(ms, name, 1)), int(group(ms, name, 2)))
       ELSE IF mn.found THEN EpisodeInfo(int(group(mn, name, 1)), int(group(mn, name, 2)))
       ELSE IF me.found THEN EpisodeInfo(1, int(group(me, name, 1)))
       ELSE IF ~anime /\ ma.found THEN EpisodeInfo(1, int(group(ma, name, 1)))
       ELSE None

\* ------------------------------------------------------------------------
\* re.sub, str.strip, str(int)
\* ------------------------------------------------------------------------
\* A replacement string: literal text followed by group references
Repl(lit, groups) == [lit |-> lit, groups |-> groups]
Empty == Repl(<<>>, <<>>)

RECURSIVE expandGroups(_, _, _, _)
expandGroups(groups, k, m, s) ==
    IF k > Len(groups) THEN <<>>
    ELSE (IF m.g[groups[k]][1] < 0 THEN <<>> ELSE group(m, s, groups[k]))
         \o expandGroups(groups, k + 1, m, s)

expand(repl, m, s) == repl.lit \o expandGroups(repl.groups, 1, m, s)

\* The first match at offset p that is allowed: after an empty match the
\* next match may not be empty at the same offset
pickAllowed(res, ok, p) == IF ok = {} THEN NoMatch ELSE MatchOf(p, res[Min(ok)])
firstAllowed(res, p, must_advance) ==
    pickAllowed(res, {k \in 1..Len(res) : ~(must_advance /\ res[k].e = p)}, p)

\* the first allowed match at offset q of a search that started at start
allowedAt(re, s, q, start, must_advance, ic) ==
    firstAllowed(M(re, s, q, NoGroups, ic), q, must_advance /\ q = start)
allowedAtFirst(hits, re, s, start, must_advance, ic) ==
    IF hits = {} THEN NoMatch ELSE allowedAt(re, s, Min(hits), start, must_advance, ic)
searchAllowed(re, s, start, must_advance, ic) ==
    allowedAtFirst({q \in start..Len(s) : allowedAt(re, s, q, start, must_advance, ic).found},
                   re, s, start, must_advance, ic)

\* re.sub(pattern, repl, s): every non-overlapping match replaced, left to right
RECURSIVE subFrom(_, _, _, _, _, _)
\* the rest of s from offset pos, given the next match m
subMatch(m, re, repl, s, pos, ic) ==
    IF ~m.found THEN SubSeq(s, pos + 1, Len(s))
    ELSE SubSeq(s, pos + 1, m.s) \o expand(repl, m, s) \o subFrom(re, repl, s, m.e, m.e = m.s, ic)
subFrom(re, repl, s, pos, must_advance, ic) ==
    IF pos > Len(s) THEN <<>>
    ELSE subMatch(searchAllowed(re, s, pos, must_advance, ic), re, repl, s, pos, ic)

sub(re, repl, s, ic) == subFrom(re, repl, s, 0, FALSE, ic)

\* str.strip(chars)
keepSpan(s, keep) == IF keep = {} THEN <<>> ELSE SubSeq(s, Min(keep), Max(keep))
stripChars(s, C) == keepSpan(s, {k \in 1..Len(s) : s[k] \notin C})

strip(s) == stripChars(s, Space)

\* str(n) for n >= 0
RECURSIVE str(_)
str(n) == IF n < 10 THEN <<DigitSeq[n + 1]>>
          ELSE str(n \div 10) \o <<DigitSeq[(n % 10) + 1]>>

\* f"{n:0{width}d}" for n >= 0
RECURSIVE zeroPad(_, _)
zeroPad(s, width) == IF Len(s) >= width THEN s ELSE zeroPad(<<"0">> \o s, width)

\* ------------------------------------------------------------------------
\* parser.py: EpisodeInfo.format_code, series name detection
\* ------------------------------------------------------------------------
\* format_code that pads every episode number to three digits
format_code_pad3(ei) ==
    <<"S">> \o zeroPad(str(ei.season), 2) \o <<"E">> \o zeroPad(str(ei.episode), 3)

format_code(ei) ==
    IF ei.episode >= 100
    THEN <<"S">> \o zeroPad(str(ei.season), 2) \o <<"E">> \o zeroPad(str(ei.episode), 3)
    ELSE <<"S">> \o zeroPad(str(ei.season), 2) \o <<"E">> \o zeroPad(str(ei.episode), 2)

\* Path.name and Path.parent.name of a path given as its segments
PathName(path) == IF path = <<>> THEN <<>> ELSE path[Len(path)]
PathParent(path) == IF path = <<>> THEN <<>> ELSE SubSeq(path, 1, Len(path) - 1)

matches(re, s, ic) == matchAt(re, s, 0, ic).found

RE_SEASON_FOLDER == Cat(<<Bol, Set({"S", "s"}), Lit(<<"e", "a", "s", "o", "n">>), Star(Set(Space)), Plus(D), Eol>>)
RE_S_FOLDER == Cat(<<Bol, Set({"S", "s"}), Plus(D), Eol>>)
\* a Specials pattern that takes the plural only
RE_SPECIALS_FOLDER_plural == Cat(<<Bol, Set({"S", "s"}), Lit(<<"p", "e", "c", "i", "a", "l", "s">>), Eol>>)
RE_SPECIALS_FOLDER == Cat(<<Bol, Set({"S", "s"}), Lit(<<"p", "e", "c", "i", "a", "l">>), Opt(Chr("s")), Eol>>)
RE_DASH_SEASON ==
    Cat(<<Star(Set(Space)), Chr("-"), Star(Set(Space)), Set({"S", "s"}), Lit(<<"e", "a", "s", "o", "n">>), Star(Dot), Eol>>)
RE_S_DIGITS == Cat(<<Star(Set(Space)), Set({"S", "s"}), Plus(D), Star(Dot), Eol>>)
RE_DOT_UNDERSCORE == Set({".", "_"})
RE_SPACES == Plus(Set(Space))

\* the folder name the series name is taken from
series_folder(path) ==
    IF matches(RE_SEASON_FOLDER, PathName(path), FALSE) \/ matches(RE_S_FOLDER, PathName(path), FALSE)
    THEN PathName(PathParent(path))
    ELSE PathName(path)

\* the clean-up of the folder name
clean_series_name(name, path) ==
    strip(sub(RE_SPACES, Repl(<<" ">>, <<>>),
              sub(RE_DOT_UNDERSCORE, Repl(<<" ">>, <<>>),
                  sub(RE_S_DIGITS, Empty,
                      sub(RE_DASH_SEASON, Empty,
                          IF matches(RE_SPECIALS_FOLDER, name, FALSE)
                          THEN PathName(PathParent(path)) ELSE name,
                          FALSE),
                      FALSE),
                  FALSE),
              FALSE))

detect_series_name(path) == clean_series_name(series_folder(path), path)

RE_YEAR_2XXX == Cat(<<Star(Set(Space)), Chr("("), Chr("2"), Rep(D, 3, 3), Chr(")"), Star(Dot), Eol>>)
RE_YEAR_19XX == Cat(<<Star(Set(Space)), Chr("("), Lit(<<"1", "9">>), Rep(D, 2, 2), Chr(")"), Star(Dot), Eol>>)
RE_YEAR_BRACKET == Cat(<<Star(Set(Space)), Chr("["), Rep(D, 4, 4), Chr("]"), Star(Dot), Eol>>)

\* The year removal of detect_series_name_no_year, applied to a clean name
remove_year(clean_name) ==
    strip(sub(RE_YEAR_BRACKET, Empty,
              sub(RE_YEAR_19XX, Empty,
                  sub(RE_YEAR_2XXX, Empty, clean_name, FALSE),
                  FALSE),
              FALSE))

detect_series_name_no_year(path) == remove_year(detect_series_name(path))

\* ------------------------------------------------------------------------
\* str.replace, substring test
\* ------------------------------------------------------------------------
IsPrefixAt(t, s, p) == p + Len(t) <= Len(s) /\ SubSeq(s, p + 1, p + Len(t)) = t

\* sub in s
contains(s, t) == \E p \in 0..Len(s) : IsPrefixAt(t, s, p)

\* s.replace(old, new) for a non-empty old
RECURSIVE replaceFrom(_, _, _, _)
\* the rest of s from offset p, given the offsets hits at which old occurs
replaceHits(hits, s, old, new, p) ==
    IF hits = {} THEN SubSeq(s, p + 1, Len(s))
    ELSE SubSeq(s, p + 1, Min(hits)) \o new \o replaceFrom(s, old, new, Min(hits) + Len(old))
replaceFrom(s, old, new, p) ==
    IF p >= Len(s) THEN <<>>
    ELSE replaceHits({q \in p..Len(s) : IsPrefixAt(old, s, q)}, s, old, new, p)

replace(s, old, new) == IF Len(s) = 0 THEN <<>> ELSE replaceFrom(s, old, new, 0)

\* an alternation of literal words
AltLit(words) == Alt([k \in 1..Len(words) |-> Lit(words[k])])

\* ------------------------------------------------------------------------
\* cleaner.py: patterns
\* ------------------------------------------------------------------------
SepP == Plus(Sep)
H26(n) == Cat(<<Chr("H"), Opt(Chr(".")), Lit(n)>>)
RESOLUTIONS == AltLit(<<<<"7", "2", "0", "p">>, <<"1", "0", "8", "0", "p">>, <<"2", "1", "6", "0", "p">>, <<"4", "K">>, <<"4", "8", "0", "p">>, <<"5", "7", "6", "p">>>>)
\* ([.\s_-].*)?$
REST == Cat(<<Opt(Cat(<<Sep, Star(Dot)>>)), Eol>>)

\* a release-group pattern that takes any token of three or more letters or digits
RELEASE_GROUP_PATTERN_any ==
    Cat(<<Chr("-"), Rep(Set(Upper \cup LowerCh \cup Digit), 3, Inf), Eol>>)

RELEASE_GROUP_PATTERN ==
    Cat(<<Chr("-"),
          Alt(<<Rep(Set(Upper \cup Digit), 3, Inf),
                Cat(<<Star(Set(Upper \cup LowerCh \cup Digit)), D,
                      Star(Set(Upper \cup LowerCh \cup Digit))>>)>>),
          Eol>>)

COMMON_TAGS ==
    Cat(<<Wb,
          AltLit(<<<<"F", "I", "X", "E", "D">>, <<"R", "E", "P", "A", "C", "K">>, <<"P", "R", "O", "P", "E", "R">>, <<"I", "N", "T", "E", "R", "N", "A", "L">>, <<"E", "X", "T", "E", "N", "D", "E", "D">>, <<"U", "N", "C", "U", "T">>,
                   <<"D", "I", "R", "E", "C", "T", "O", "R", "S">>, <<"C", "U", "T">>, <<"D", "U", "B", "B", "E", "D">>, <<"S", "U", "B", "B", "E", "D">>>>),
          Wb>>)

BRACKET_PATTERN == Cat(<<Chr("["), Star(NSet({"]"})), Chr("]")>>)

TECH_PAREN_PATTERN ==
    Cat(<<Chr("("), Star(NSet({")"})),
          AltLit(<<<<"7", "2", "0", "p">>, <<"1", "0", "8", "0", "p">>, <<"2", "1", "6", "0", "p">>, <<"4", "K">>, <<"x", "2", "6", "4">>, <<"x", "2", "6", "5">>, <<"H", "E", "V", "C">>,
                   <<"B", "l", "u", "R", "a", "y">>, <<"W", "E", "B">>, <<"H", "D", "T", "V">>>>),
          Star(NSet({")"})), Chr(")")>>)

SpDotUs == Plus(Set(Space \cup {".", "_"}))

MEANINGFUL_PAREN ==
    Cat(<<Chr("("),
          Alt(<<Cat(<<Lit(<<"P", "a", "r", "t">>), SpDotUs, Plus(D)>>),
                Plus(D),
                Cat(<<Lit(<<"E", "x", "t", "e", "n", "d", "e", "d">>), SpDotUs, Lit(<<"C", "u", "t">>)>>),
                Cat(<<Lit(<<"D", "i", "r", "e", "c", "t", "o", "r">>), Opt(Chr("'")), Opt(Chr("s")), SpDotUs, Lit(<<"C", "u", "t">>)>>),
                Cat(<<Lit(<<"F", "i", "n", "a", "l">>), SpDotUs, Lit(<<"C", "u", "t">>)>>),
                Lit(<<"U", "n", "r", "a", "t", "e", "d">>),
                Lit(<<"T", "h", "e", "a", "t", "r", "i", "c", "a", "l">>)>>),
          Chr(")")>>)

ELLIPSIS_PLACEHOLDER == <<"T", "H", "R", "E", "E", "D", "O", "T", "S", "P", "L", "A", "C", "E", "H", "O", "L", "D", "E", "R">>

protect_ellipsis(text) == replace(text, <<".", ".", ".">>, ELLIPSIS_PLACEHOLDER)
restore_ellipsis(text) == replace(text, ELLIPSIS_PLACEHOLDER, <<".", ".", ".">>)

\* ------------------------------------------------------------------------
\* cleaner.py: find_title_boundary
\* ------------------------------------------------------------------------
TitleThen(sepre, tags) == Cat(<<Bol, Grp(1, Plus(Dot)), sepre, tags>>)
SpParen == Cat(<<Plus(Set(Space)), Chr("(")>>)

BOUNDARY_PATTERNS ==
    << TitleThen(Chr("."), RESOLUTIONS),
       TitleThen(SpParen, RESOLUTIONS),
       TitleThen(Lit(<<".", "W", "E", "B", ".">>), Alt(<<Lit(<<"x", "2", "6", "4">>), Lit(<<"x", "2", "6", "5">>), Lit(<<"H", "E", "V", "C">>), H26(<<"2", "6", "4">>), H26(<<"2", "6", "5">>)>>)),
       TitleThen(Chr("."), AltLit(<<<<"W", "E", "B", "-", "D", "L">>, <<"B", "l", "u", "R", "a", "y">>, <<"B", "D", "R", "i", "p">>, <<"H", "D", "T", "V">>, <<"x", "2", "6", "4">>, <<"x", "2", "6", "5">>, <<"H", "E", "V", "C">>>>)),
       TitleThen(SpParen, AltLit(<<<<"W", "E", "B", "-", "D", "L">>, <<"B", "l", "u", "R", "a", "y">>, <<"B", "D", "R", "i", "p">>, <<"H", "D", "T", "V">>, <<"x", "2", "6", "4">>, <<"x", "2", "6", "5">>, <<"H", "E", "V", "C">>>>)),
       TitleThen(Chr("."), AltLit(<<<<"A", "M", "Z", "N">>, <<"N", "F", "L", "X">>, <<"N", "F">>, <<"H", "U", "L", "U">>>>)) >>

NoBoundary == -1

\* the end of group 1 of the first boundary pattern that matches
boundaryOf(hits, text) ==
    IF hits = {} THEN NoBoundary
    ELSE Len(group(matchAt(BOUNDARY_PATTERNS[Min(hits)], text, 0, TRUE), text, 1))
firstBoundary(text) ==
    boundaryOf({k \in 1..Len(BOUNDARY_PATTERNS) : matchAt(BOUNDARY_PATTERNS[k], text, 0, TRUE).found}, text)

find_title_boundary(text) == firstBoundary(protect_ellipsis(text))

\* ------------------------------------------------------------------------
\* cleaner.py: _remove_series_name
\* ------------------------------------------------------------------------
RE_PAREN_YEAR == Cat(<<Star(Set(Space)), Chr("("), Rep(D, 4, 4), Chr(")")>>)
DotUsDash == Set({".", "_", "-"})
RE_LEADING_YEAR ==
    Cat(<<Bol, Star(Set(Space)), Chr("("), Rep(D, 4, 4), Chr(")"), Star(Set(Space)),
          Opt(Chr("-")), Star(Set(Space))>>)
RE_LEADING_DASHES == Cat(<<Bol, Chr("-"), Star(Set(Space)), Chr("-"), Star(Set(Space))>>)

\* the three substitutions done for one spelling of the series name
remove_variant(text, variant) ==
    sub(Cat(<<Bol, Lit(variant), Star(DotUsDash)>>), Empty,
        sub(Cat(<<Bol, Lit(variant), Star(Sep), Rep(D, 4, 4), NLa(Chr("p")), Star(DotUsDash)>>), Empty,
            sub(Cat(<<Bol, Lit(variant), Star(Sep), Chr("("), Rep(D, 4, 4), Chr(")"), Star(Sep)>>), Empty,
                text, TRUE),
            TRUE),
        TRUE)

\* steps lists the intermediate texts in the order in which they are computed
remove_series_name(text, series) ==
    LET series_no_year == sub(RE_PAREN_YEAR, Empty, series, FALSE)
        v1 == remove_variant(text, series_no_year)
        v2 == remove_variant(v1, replace(series_no_year, <<" ">>, <<".">>))
        v3 == remove_variant(v2, replace(series_no_year, <<" ">>, <<"-">>))
        v4 == remove_variant(v3, replace(series_no_year, <<" ">>, <<"_">>))
        v5 == sub(RE_LEADING_YEAR, Empty, v4, FALSE)
        v6 == sub(RE_LEADING_DASHES, Empty, v5, FALSE)
        steps == <<series_no_year, v1, v2, v3, v4, v5, v6>>
    IN steps[7]

\* ------------------------------------------------------------------------
\* cleaner.py: _strip_technical_metadata
\* ------------------------------------------------------------------------
STRIP_PATTERNS ==
    << Cat(<<SepP, RESOLUTIONS, REST>>),
       Cat(<<SepP, Alt(<<Lit(<<"x", "2", "6", "4">>), Lit(<<"x", "2", "6", "5">>), Lit(<<"H", "E", "V", "C">>), H26(<<"2", "6", "4">>), H26(<<"2", "6", "5">>)>>), REST>>),
       Cat(<<SepP, AltLit(<<<<"W", "E", "B", "-", "D", "L">>, <<"W", "E", "B", "R", "i", "p">>, <<"B", "l", "u", "R", "a", "y">>, <<"B", "D", "R", "i", "p">>, <<"D", "V", "D", "R", "i", "p">>, <<"H", "D", "T", "V">>, <<"P", "D", "T", "V">>>>), REST>>),
       Cat(<<SepP, Lit(<<"W", "E", "B">>), SepP, AltLit(<<<<"x", "2", "6", "4">>, <<"x", "2", "6", "5">>, <<"H", "E", "V", "C">>, <<"A", "A", "C">>, <<"A", "C", "3">>>>), REST>>),
       Cat(<<SepP, AltLit(<<<<"A", "M", "Z", "N">>, <<"N", "F", "L", "X">>, <<"N", "F">>, <<"H", "U", "L", "U">>, <<"D", "S", "N", "P">>, <<"H", "B", "O">>, <<"M", "A", "X">>, <<"H", "M", "A", "X">>>>), REST>>),
       Cat(<<SepP, Alt(<<Lit(<<"A", "A", "C">>), Lit(<<"A", "C", "3">>), Lit(<<"D", "T", "S">>),
                         Cat(<<Lit(<<"D", "D", "P">>), Opt(D), Opt(Chr(".")), Opt(D)>>)>>), REST>>) >>

RE_DL ==
    Cat(<<Grp(1, Alt(<<Bol, Sep>>)),
          Grp(2, Alt(<<Lit(<<"D", "L">>), Cat(<<Lit(<<"D", "D">>), Opt(Chr("P"))>>)>>)),
          Grp(3, Alt(<<Sep, Eol>>))>>)

RE_ONLY_METADATA ==
    Cat(<<Bol, AltLit(<<<<"7", "2", "0", "p">>, <<"1", "0", "8", "0", "p">>, <<"2", "1", "6", "0", "p">>, <<"4", "K">>, <<"W", "E", "B">>, <<"B", "l", "u", "R", "a", "y">>, <<"H", "D", "T", "V">>,
                        <<"x", "2", "6", "4">>, <<"x", "2", "6", "5">>, <<"H", "E", "V", "C">>>>)>>)

\* nothing is left of a text that starts with a metadata word
blank_if_only_metadata(text) == IF matches(RE_ONLY_METADATA, text, TRUE) THEN <<>> ELSE text

\* steps lists the intermediate texts in the order in which they are computed
strip_technical_metadata(text) ==
    LET s1 == sub(STRIP_PATTERNS[1], Empty, text, TRUE)
        s2 == sub(STRIP_PATTERNS[2], Empty, s1, TRUE)
        s3 == sub(STRIP_PATTERNS[3], Empty, s2, TRUE)
        s4 == sub(STRIP_PATTERNS[4], Empty, s3, TRUE)
        s5 == sub(STRIP_PATTERNS[5], Empty, s4, TRUE)
        s6 == sub(STRIP_PATTERNS[6], Empty, s5, TRUE)
        s7 == sub(RE_DL, Repl(<<>>, <<1, 3>>), s6, TRUE)
        steps == <<s1, s2, s3, s4, s5, s6, s7>>
    IN blank_if_only_metadata(steps[7])

\* ------------------------------------------------------------------------
\* cleaner.py: _clean_parentheticals
\* ------------------------------------------------------------------------
\* pattern.finditer(s): the texts of the non-overlapping matches, left to right
RECURSIVE finditerFrom(_, _, _, _, _)
\* the matches from the next match m on
finditerMatch(m, re, s, ic) ==
    IF ~m.found THEN <<>>
    ELSE <<SubSeq(s, m.s + 1, m.e)>> \o finditerFrom(re, s, m.e, m.e = m.s, ic)
finditerFrom(re, s, pos, must_advance, ic) ==
    IF pos > Len(s) THEN <<>>
    ELSE finditerMatch(searchAllowed(re, s, pos, must_advance, ic), re, s, ic)

placeholder(counter) == <<"_", "_", "P", "R", "O", "T", "_">> \o str(counter) \o <<"_", "_">>

\* text after the first k protected parentheticals have been replaced by
\* their placeholders, and after they have been put back
RECURSIVE protectUpTo(_, _, _), restoreUpTo(_, _, _)
protectUpTo(text, found, k) ==
    IF k = 0 THEN text
    ELSE replace(protectUpTo(text, found, k - 1), found[k], placeholder(k - 1))

restoreUpTo(text, found, k) ==
    IF k = 0 THEN text
    ELSE replace(restoreUpTo(text, found, k - 1), placeholder(k - 1), found[k])

RE_TRAILING_PAREN == Cat(<<Star(Set(Space)), Chr("("), Star(NSet({")"})), Chr(")"), Eol>>)
RE_UNCLOSED_PAREN == Cat(<<Star(Set(Space)), Chr("("), Star(NSet({")"})), Eol>>)

\* clean_parentheticals, given the meaningful parentheticals found in text
clean_around(text, found) ==
    restoreUpTo(sub(RE_UNCLOSED_PAREN, Empty,
                    sub(RE_TRAILING_PAREN, Empty,
                        sub(TECH_PAREN_PATTERN, Empty, protectUpTo(text, found, Len(found)), TRUE),
                        FALSE),
                    FALSE),
                found, Len(found))

clean_parentheticals(text) == clean_around(text, finditerFrom(MEANINGFUL_PAREN, text, 0, FALSE, TRUE))

\* ------------------------------------------------------------------------
\* cleaner.py: clean_title
\* ------------------------------------------------------------------------
RE_EXTENSION ==
    Cat(<<Chr("."),
          AltLit(<<<<"m", "k", "v">>, <<"m", "p", "4">>, <<"a", "v", "i">>, <<"m", "4", "v">>, <<"m", "o", "v">>, <<"w", "m", "v">>, <<"f", "l", "v">>, <<"w", "e", "b", "m">>, <<"t", "s">>, <<"m", "2", "t", "s">>>>),
          Eol>>)

\* title[:boundary] when a boundary was found after the second character
truncate(text, boundary) ==
    IF boundary # NoBoundary /\ boundary > 2 THEN SubSeq(text, 1, boundary) ELSE text

Only(S) == CHOOSE x \in S : TRUE

\* The steps of clean_title, the last one first: every set holds one text,
\* the title after the step.
clean_title(raw, series) ==
    IF raw = <<>> THEN <<>>
    ELSE Only({restore_ellipsis(c12) : c12 \in
              {strip(stripChars(c11, {"-"})) : c11 \in
              {strip(sub(RE_SPACES, Repl(<<" ">>, <<>>), c10, FALSE)) : c10 \in
              {sub(RE_DOT_UNDERSCORE, Repl(<<" ">>, <<>>), c9, FALSE) : c9 \in
              {sub(RE_EXTENSION, Empty, c8, TRUE) : c8 \in
              {clean_parentheticals(c7) : c7 \in
              {sub(BRACKET_PATTERN, Empty, c6, FALSE) : c6 \in
              {sub(COMMON_TAGS, Empty, c5, TRUE) : c5 \in
              {sub(RELEASE_GROUP_PATTERN, Empty, c4, FALSE) : c4 \in
              {strip_technical_metadata(c3) : c3 \in
              {truncate(c2, find_title_boundary(c2)) : c2 \in
              {IF series # <<>> THEN remove_series_name(c1, series) ELSE c1 : c1 \in
              {protect_ellipsis(raw)}}}}}}}}}}}}})

\* ------------------------------------------------------------------------
\* cleaner.py: validate_episode_title
\* ------------------------------------------------------------------------
RE_NOT_ALNUM == NSet(LowerCh \cup Digit)
\* the pattern of a bare number, without the episode or ep prefix
RE_GENERIC_bare ==
    Cat(<<Bol, Star(Chr("0")), Plus(D), Eol>>)

\* ^(episode|ep)?0*\d+$
RE_GENERIC ==
    Cat(<<Bol, Opt(Alt(<<Lit(<<"e", "p", "i", "s", "o", "d", "e">>), Lit(<<"e", "p">>)>>)), Star(Chr("0")), Plus(D), Eol>>)

normalize(s) == sub(RE_NOT_ALNUM, Empty, lowerStr(s), FALSE)

\* a key that leaves the season out
dedup_key_noseason(season, norm_title) == norm_title

\* the key under which an accepted title is recorded
dedup_key(season, norm_title) == str(season) \o <<"_">> \o norm_title

\* the rules without the two substring tests
rejected_by_rules_equal_only(candidate, series) ==
    \/ candidate = <<>>
    \/ strip(candidate) = <<>>
    \/ LET stripped == strip(candidate)
           norm_title == normalize(stripped)
           norm_series == normalize(series)
           series_no_year == sub(RE_PAREN_YEAR, Empty, series, FALSE)
           norm_series_no_year == normalize(series_no_year)
       IN \/ norm_title = norm_series
          \/ norm_title = norm_series_no_year
          \/ matches(RE_GENERIC, norm_title, FALSE)

\* rules (a)-(c): blank, overlap with the series name, generic episode reference
rejected_by_rules(candidate, series) ==
    \/ candidate = <<>>
    \/ strip(candidate) = <<>>
    \/ LET stripped == strip(candidate)
           norm_title == normalize(stripped)
           norm_series == normalize(series)
           series_no_year == sub(RE_PAREN_YEAR, Empty, series, FALSE)
           norm_series_no_year == normalize(series_no_year)
       IN \/ norm_title = norm_series
          \/ norm_title = norm_series_no_year
          \/ norm_series_no_year # <<>> /\ contains(norm_title, norm_series_no_year)
          \/ norm_title # <<>> /\ contains(norm_series_no_year, norm_title)
          \/ matches(RE_GENERIC, norm_title, FALSE)

\* validate_episode_title that records the key before it applies the rules
validate_episode_title_record_first(candidate, series, season, episode, seen) ==
    IF rejected_by_rules(candidate, series)
    THEN [title |-> <<>>, seen |-> seen \cup {dedup_key(season, normalize(strip(candidate)))}]
    ELSE LET stripped == strip(candidate)
             norm_title == normalize(stripped)
             key == dedup_key(season, norm_title)
         IN IF key \in seen THEN [title |-> <<>>, seen |-> seen]
            ELSE [title |-> strip(candidate), seen |-> seen \cup {key}]

\* validate_episode_title with a seen-titles set: the title returned and
\* the set afterwards
validate_episode_title(candidate, series, season, episode, seen) ==
    IF rejected_by_rules(candidate, series) THEN [title |-> <<>>, seen |-> seen]
    ELSE LET stripped == strip(candidate)
             norm_title == normalize(stripped)
             key == dedup_key(season, norm_title)
         IN IF key \in seen THEN [title |-> <<>>, seen |-> seen]
            ELSE [title |-> strip(candidate), seen |-> seen \cup {key}]

\* ------------------------------------------------------------------------
\* operations.py: output formats, RenameSession, build_filename
\* ------------------------------------------------------------------------
SHOW_YEAR_SXXEXX_TITLE == "Show (Year) - SxxExx - Title"
SHOW_YEAR_SXXEXX == "Show (Year) - SxxExx"
SHOW_SXXEXX_TITLE == "Show - SxxExx - Title"
SHOW_SXXEXX == "Show - SxxExx"
SXXEXX_TITLE == "SxxExx - Title"
SXXEXX == "SxxExx"

all_formats == {SHOW_YEAR_SXXEXX_TITLE, SHOW_YEAR_SXXEXX, SHOW_SXXEXX_TITLE,
                SHOW_SXXEXX, SXXEXX_TITLE, SXXEXX}

RenameOptions(dry_run, force, anime, deep_clean, output_format, series) ==
    [dry_run |-> dry_run, force |-> force, anime_mode |-> anime, deep_clean |-> deep_clean,
     output_format |-> output_format, series_name |-> series]

\* RenameSession.__post_init__: the series name of the session
post_init_series_name(path, opts) ==
    IF opts.series_name # <<>> THEN opts.series_name ELSE detect_series_name(path)

DASH == <<" ", "-", " ">>

build_filename(ei, t, ext, series, output_format, path) ==
    LET season_episode == format_code(ei)
        series_no_year == IF series # <<>> THEN detect_series_name_no_year(path) ELSE <<>>
        SET(s) == s \o DASH \o season_episode \o DASH \o t \o <<".">> \o ext
        SE(s) == s \o DASH \o season_episode \o <<".">> \o ext
        ET == season_episode \o DASH \o t \o <<".">> \o ext
        E == season_episode \o <<".">> \o ext
    IN CASE output_format = SHOW_YEAR_SXXEXX_TITLE ->
              IF t # <<>> /\ series # <<>> THEN SET(series)
              ELSE IF series # <<>> THEN SE(series)
              ELSE IF t # <<>> THEN ET
              ELSE E
         [] output_format = SHOW_YEAR_SXXEXX ->
              IF series # <<>> THEN SE(series) ELSE E
         [] output_format = SHOW_SXXEXX_TITLE ->
              IF t # <<>> /\ series_no_year # <<>> THEN SET(series_no_year)
              ELSE IF series_no_year # <<>> THEN SE(series_no_year)
              ELSE IF t # <<>> THEN ET
              ELSE E
         [] output_format = SHOW_SXXEXX ->
              IF series_no_year # <<>> THEN SE(series_no_year) ELSE E
         [] output_format = SXXEXX_TITLE ->
              IF t # <<>> THEN ET ELSE E
         [] output_format = SXXEXX -> E
         [] OTHER ->
              IF t # <<>> /\ series # <<>> THEN SET(series)
              ELSE IF series # <<>> THEN SE(series)
              ELSE E

\* ------------------------------------------------------------------------
\* operations.py: get_episode_title
\* ------------------------------------------------------------------------
\* offset of the "." that starts the suffix of a name (0 when there is none)
suffixStart(name) ==
    LET dots == {k \in 1..Len(name) : name[k] = "."}
    IN IF dots # {} /\ 1 < Max(dots) /\ Max(dots) < Len(name) THEN Max(dots) ELSE 0

\* Path(name).suffix and Path(name).stem
suffix(name) == IF suffixStart(name) = 0 THEN <<>> ELSE SubSeq(name, suffixStart(name), Len(name))
stem(name) == IF suffixStart(name) = 0 THEN name ELSE SubSeq(name, 1, suffixStart(name) - 1)

RE_TITLE_SXXEXX ==
    Cat(<<Set({"S", "s"}), Rep(D, 1, 2), Star(Sep), Set({"E", "e"}), Rep(D, 1, 3), Star(Sep)>>)
RE_TITLE_NXNN == Cat(<<Rep(D, 1, 2), Chr("x"), Rep(D, 2, 3), Star(Sep)>>)
RE_TITLE_EXX == Cat(<<Set({"E", "e"}), Rep(D, 1, 3), Star(Sep)>>)
RE_TITLE_ANIME ==
    Cat(<<Chr("-"), Star(Set(Space)), Rep(D, 1, 3), Star(Set(Space)), La(Set({"[", "(", "."}))>>)

\* the title fragment handed to clean_title
title_fragment(name) ==
    sub(RE_TITLE_ANIME, Empty,
        sub(RE_TITLE_EXX, Empty,
            sub(RE_TITLE_NXNN, Empty,
                sub(RE_TITLE_SXXEXX, Empty, stem(name), FALSE),
                FALSE),
            FALSE),
        FALSE)

\* get_episode_title with a seen-titles set: the title returned and the
\* set afterwards
get_episode_title(name, ei, series, seen) ==
    validate_episode_title(clean_title(title_fragment(name), series), series,
                           ei.season, ei.episode, seen)

\* ------------------------------------------------------------------------
\* pathlib and os: files in a directory tree
\* ------------------------------------------------------------------------
\* A path is the sequence of its names.  A file system maps the path of
\* every file to its content, [id, title]: id stands for the data of the
\* file and title for the title in its container metadata.  cs tells
\* whether names that differ only in letter case are different files.
Ascii32 ==
    <<" ", "!", "\"", "#", "$", "%", "&", "'", "(", ")", "*", "+", ",", "-", ".", "/",
      "0", "1", "2", "3", "4", "5", "6", "7", "8", "9", ":", ";", "<", "=", ">", "?",
      "@", "A", "B", "C", "D", "E", "F", "G", "H", "I", "J", "K", "L", "M", "N", "O",
      "P", "Q", "R", "S", "T", "U", "V", "W", "X", "Y", "Z", "[", "\\", "]", "^", "_">>
Ascii97 ==
    <<"a", "b", "c", "d", "e", "f", "g", "h", "i", "j", "k", "l", "m", "n", "o",
      "p", "q", "r", "s", "t", "u", "v", "w", "x", "y", "z", "{", "|", "}", "~">>
\* ord(c) for the printable characters but the grave accent
ord(c) ==
    IF \E k \in 1..Len(Ascii32) : Ascii32[k] = c
    THEN 31 + (CHOOSE k \in 1..Len(Ascii32) : Ascii32[k] = c)
    ELSE 96 + (CHOOSE k \in 1..Len(Ascii97) : Ascii97[k] = c)

\* a < b for Python strings
StrLess(a, b) ==
    LET n == Min({Len(a), Len(b)})
        diff == {k \in 1..n : a[k] # b[k]}
    IN IF diff = {} THEN Len(a) < Len(b) ELSE ord(a[Min(diff)]) < ord(b[Min(diff)])

upper(c) == IF c \in LowerCh THEN UpperSeq[CHOOSE k \in 1..26 : LowerSeq[k] = c] ELSE c
upperStr(s) == [k \in 1..Len(s) |-> upper(s[k])]
startswith(s, t) == IsPrefixAt(t, s, 0)
endswith(s, t) == Len(t) <= Len(s) /\ SubSeq(s, Len(s) - Len(t) + 1, Len(s)) = t
lstrip(s, C) ==
    LET keep == {k \in 1..Len(s) : s[k] \notin C}
    IN IF keep = {} THEN <<>> ELSE SubSeq(s, Min(keep), Len(s))

\* str(path)
RECURSIVE PathStr(_)
PathStr(path) ==
    IF path = <<>> THEN <<>>
    ELSE PathStr(PathParent(path)) \o <<"/">> \o PathName(path)

lowerPath(path) == [k \in 1..Len(path) |-> lowerStr(path[k])]

\* path.with_suffix(sfx)
with_suffix(path, sfx) == PathParent(path) \o <<stem(PathName(path)) \o sfx>>

\* the files that path names: one at most
entries(fs, path, cs) ==
    {q \in DOMAIN fs : IF cs THEN q = path ELSE lowerPath(q) = lowerPath(path)}

\* path.exists()
exists(fs, path, cs) == entries(fs, path, cs) # {}

\* old.rename(new) for an existing file old: new names the content of old,
\* and the file that new named before is gone
os_rename(fs, old, new, cs) ==
    LET src == CHOOSE q \in entries(fs, old, cs) : TRUE
        kept == (DOMAIN fs \ {src}) \ entries(fs, new, cs)
    IN [q \in kept \cup {new} |-> IF q = new THEN fs[src] ELSE fs[q]]

\* directory.iterdir(): the files of the directory
iterdir(fs, directory) == {p \in DOMAIN fs : PathParent(p) = directory}

\* the orders in which the elements of a set can be listed
Orderings(S) ==
    {o \in [1..Cardinality(S) -> S] : \A i, j \in 1..Cardinality(S) : i # j => o[i] # o[j]}

\* ------------------------------------------------------------------------
\* operations.py: safe_rename, rename_companions, find_video_files
\* ------------------------------------------------------------------------
VIDEO_EXTENSIONS ==
    {<<".", "m", "k", "v">>, <<".", "m", "p", "4">>, <<".", "a", "v", "i">>, <<".", "m", "4", "v">>, <<".", "m", "o", "v">>, <<".", "w", "m", "v">>, <<".", "f", "l", "v">>, <<".", "w", "e", "b", "m">>,
     <<".", "t", "s">>, <<".", "m", "2", "t", "s">>}
COMPANION_EXTENSIONS ==
    {<<".", "s", "r", "t">>, <<".", "a", "s", "s">>, <<".", "v", "t", "t">>, <<".", "s", "s", "a">>, <<".", "s", "u", "b">>, <<".", "i", "d", "x">>, <<".", "n", "f", "o">>, <<".", "j", "p", "g">>,
     <<".", "j", "p", "e", "g">>, <<".", "p", "n", "g">>, <<".", "t", "t", "m", "l">>, <<".", "t", "x", "t">>, <<".", "s", "f", "v">>, <<".", "s", "r", "r">>, <<".", "t", "b", "n">>, <<".", "c", "u", "e">>,
     <<".", "x", "m", "l">>, <<".", "m", "k", "a">>, <<".", "m", "k", "s">>}

\* a RenameResult; message is the fixed part of the message text
RenameResult(old_path, new_path, success, skipped, message) ==
    [old_path |-> old_path, new_path |-> new_path, success |-> success,
     skipped |-> skipped, message |-> message]

is_case_only_rename(old_path, new_path) ==
    old_path # new_path /\ lowerStr(PathStr(old_path)) = lowerStr(PathStr(new_path))

\* safe_rename that renames in a dry run too
safe_rename_nodry(fs, old_path, new_path, dry_run, force, fault, cs) ==
    IF ~exists(fs, old_path, cs)
    THEN [result |-> RenameResult(old_path, new_path, FALSE, FALSE, "Source doesn't exist"), disk |-> fs]
    ELSE IF old_path = new_path
    THEN [result |-> RenameResult(old_path, new_path, TRUE, TRUE, "Already correct"), disk |-> fs]
    ELSE IF exists(fs, new_path, cs) /\ ~is_case_only_rename(old_path, new_path) /\ ~force
    THEN [result |-> RenameResult(old_path, new_path, FALSE, TRUE, "Destination exists"), disk |-> fs]
    ELSE [result |-> RenameResult(old_path, new_path, TRUE, FALSE, "Renamed"),
          disk |-> os_rename(fs, old_path, new_path, cs)]

\* safe_rename on the file system fs: the result returned and the file
\* system afterwards.  fault is the os.rename call of this invocation that
\* raises OSError (0: none does).
safe_rename(fs, old_path, new_path, dry_run, force, fault, cs) ==
    IF ~exists(fs, old_path, cs)
    THEN [result |-> RenameResult(old_path, new_path, FALSE, FALSE, "Source doesn't exist"), disk |-> fs]
    ELSE IF old_path = new_path
    THEN [result |-> RenameResult(old_path, new_path, TRUE, TRUE, "Already correct"), disk |-> fs]
    ELSE IF exists(fs, new_path, cs) /\ ~is_case_only_rename(old_path, new_path) /\ ~force
    THEN [result |-> RenameResult(old_path, new_path, FALSE, TRUE, "Destination exists"), disk |-> fs]
    ELSE IF dry_run
    THEN [result |-> RenameResult(old_path, new_path, TRUE, FALSE, "Would rename"), disk |-> fs]
    ELSE IF fault = 1
    THEN [result |-> RenameResult(old_path, new_path, FALSE, FALSE, "Rename failed"), disk |-> fs]
    ELSE IF is_case_only_rename(old_path, new_path)
    THEN LET tmp_path == with_suffix(new_path, suffix(PathName(new_path)) \o <<".", "_", "_", "t", "m", "p", "_", "_">>)
             moved == os_rename(fs, old_path, tmp_path, cs)
         IN IF fault = 2
            THEN [result |-> RenameResult(old_path, new_path, FALSE, FALSE, "Rename failed"), disk |-> moved]
            ELSE [result |-> RenameResult(old_path, new_path, TRUE, FALSE, "Renamed"),
                  disk |-> os_rename(moved, tmp_path, new_path, cs)]
    ELSE [result |-> RenameResult(old_path, new_path, TRUE, FALSE, "Renamed"),
          disk |-> os_rename(fs, old_path, new_path, cs)]

\* the files of the directory that rename_companions does not skip: not the
\* video itself, a whitelisted extension, a name that starts with the stem
\* of the old video
companions(fs, old_video) ==
    {path \in iterdir(fs, PathParent(old_video)) :
        /\ path # old_video
        /\ lowerStr(suffix(PathName(path))) \in COMPANION_EXTENSIONS
        /\ startswith(PathName(path), stem(PathName(old_video)))}

\* the loop of rename_companions from the k-th companion of the listing
RECURSIVE companionsFrom(_, _, _, _, _, _, _, _)
companionsFrom(acc, listing, k, old_video, new_video, dry_run, faults, cs) ==
    IF k > Len(listing) THEN acc
    ELSE LET new_name == stem(PathName(new_video))
                         \o SubSeq(PathName(listing[k]), Len(stem(PathName(old_video))) + 1,
                                   Len(PathName(listing[k])))
             renamed == safe_rename(acc.disk, listing[k], PathParent(old_video) \o <<new_name>>,
                                    dry_run, FALSE, faults[k], cs)
         IN companionsFrom([results |-> Append(acc.results, renamed.result), disk |-> renamed.disk],
                           listing, k + 1, old_video, new_video, dry_run, faults, cs)

\* rename_companions on the file system fs: listing is the order in which
\* iterdir yields the companions and faults[k] the fault of the k-th
\* safe_rename
rename_companions(fs, old_video, new_video, dry_run, listing, faults, cs) ==
    companionsFrom([results |-> <<>>, disk |-> fs], listing, 1, old_video, new_video, dry_run, faults, cs)

\* the season and episode of a file without episode pattern in the sort key
FALLBACK == 999

episode_sort_key(path) ==
    LET parsed == get_season_episode(PathName(path), FALSE)
    IN IF parsed # None
       THEN <<lowerStr(PathStr(PathParent(path))), parsed.season, parsed.episode, lowerStr(PathName(path))>>
       ELSE <<lowerStr(PathStr(PathParent(path))), FALLBACK, FALLBACK, lowerStr(PathName(path))>>

\* a < b for sort keys
KeyLess(a, b) ==
    \/ StrLess(a[1], b[1])
    \/ a[1] = b[1] /\ a[2] < b[2]
    \/ a[1] = b[1] /\ a[2] = b[2] /\ a[3] < b[3]
    \/ a[1] = b[1] /\ a[2] = b[2] /\ a[3] = b[3] /\ StrLess(a[4], b[4])

\* base_path.rglob("*" + ext) for the video extensions and their upper case
rglob_videos(fs, base) ==
    {p \in DOMAIN fs :
        /\ Len(p) > Len(base)
        /\ SubSeq(p, 1, Len(base)) = base
        /\ \E ext \in VIDEO_EXTENSIONS :
              endswith(PathName(p), ext) \/ endswith(PathName(p), upperStr(ext))}

\* sorted(files, key=_episode_sort_key) with the keys given as pairs of file
\* and key: the lists it can return (files with equal keys come in the
\* order of the set, which is arbitrary)
sorted_by_key(files, keys) ==
    {o \in Orderings(files) :
        \A i \in 1..(Cardinality(files) - 1) :
            ~KeyLess((CHOOSE pk \in keys : pk[1] = o[i + 1])[2], (CHOOSE pk \in keys : pk[1] = o[i])[2])}

find_video_files(fs, base) ==
    sorted_by_key(rglob_videos(fs, base), {<<p, episode_sort_key(p)>> : p \in rglob_videos(fs, base)})

\* the outcome of process_video_file for a file without episode pattern
unparseable(file_path, seen, fs) ==
    [result |-> RenameResult(file_path, file_path, FALSE, FALSE, "Could not extract episode info"),
     disk |-> fs, seen |-> seen]

\* the Specials override that compares the folder name as it is written
specials_override_exact(file_path, parsed) ==
    IF PathName(PathParent(file_path)) \in {<<"s", "p", "e", "c", "i", "a", "l", "s">>, <<"s", "p", "e", "c", "i", "a", "l">>}
    THEN EpisodeInfo(0, parsed.episode)
    ELSE parsed

\* the Specials override of process_video_file
specials_override(file_path, parsed) ==
    IF lowerStr(PathName(PathParent(file_path))) \in {<<"s", "p", "e", "c", "i", "a", "l", "s">>, <<"s", "p", "e", "c", "i", "a", "l">>}
    THEN EpisodeInfo(0, parsed.episode)
    ELSE parsed

\* the end of process_video_file with rename_companions called whatever
\* the result of the video is
rename_video_always(file_path, new_path, seen, opts, fs, cs) ==
    LET renamed(fault) == safe_rename(fs, file_path, new_path, opts.dry_run, opts.force, fault, cs)
        found(fault) == companions(renamed(fault).disk, file_path)
    IN UNION {{[result |-> renamed(fault).result,
                disk |-> rename_companions(renamed(fault).disk, file_path, new_path,
                                           opts.dry_run, listing, faults, cs).disk,
                seen |-> seen] :
                  listing \in Orderings(found(fault)),
                  faults \in [1..Cardinality(found(fault)) -> 0..2]} :
              fault \in 0..2}

\* the end of process_video_file: safe_rename of the video, then
\* rename_companions if the result is a success.  Every os.rename may
\* raise OSError and the directory may be listed in any order.
rename_video(file_path, new_path, seen, opts, fs, cs) ==
    LET renamed(fault) == safe_rename(fs, file_path, new_path, opts.dry_run, opts.force, fault, cs)
        found(fault) == companions(renamed(fault).disk, file_path)
    IN UNION {IF renamed(fault).result.success
              THEN {[result |-> renamed(fault).result,
                     disk |-> rename_companions(renamed(fault).disk, file_path, new_path,
                                                opts.dry_run, listing, faults, cs).disk,
                     seen |-> seen] :
                       listing \in Orderings(found(fault)),
                       faults \in [1..Cardinality(found(fault)) -> 0..2]}
              ELSE {[result |-> renamed(fault).result, disk |-> renamed(fault).disk, seen |-> seen]} :
              fault \in 0..2}

\* process_video_file once the title has been validated: t is the title
\* and the seen-titles set afterwards
process_titled(file_path, ei, t, opts, series, base, fs, cs) ==
    rename_video(file_path,
                 PathParent(file_path)
                     \o <<build_filename(ei, t.title, lstrip(suffix(PathName(file_path)), {"."}),
                                         series, opts.output_format, base)>>,
                 t.seen, opts, fs, cs)

\* process_video_file after the episode pattern has been found
process_parsed(file_path, parsed, opts, series, base, seen, fs, cs) ==
    process_titled(file_path, specials_override(file_path, parsed),
                   get_episode_title(PathName(file_path), specials_override(file_path, parsed), series, seen),
                   opts, series, base, fs, cs)

\* process_video_file that takes season 1, episode 1 for a file without
\* episode pattern
process_video_file_default(file_path, opts, series, base, seen, fs, cs) ==
    LET parsed == get_season_episode(PathName(file_path), opts.anime_mode)
    IN IF parsed = None
       THEN process_parsed(file_path, EpisodeInfo(1, 1), opts, series, base, seen, fs, cs)
       ELSE process_parsed(file_path, parsed, opts, series, base, seen, fs, cs)

\* process_video_file on the file system fs with the seen-titles set seen:
\* the outcomes it can have, each the result returned, the file system and
\* the seen-titles set afterwards
process_video_file(file_path, opts, series, base, seen, fs, cs) ==
    LET parsed == get_season_episode(PathName(file_path), opts.anime_mode)
    IN IF parsed = None
       THEN {unparseable(file_path, seen, fs)}
       ELSE process_parsed(file_path, parsed, opts, series, base, seen, fs, cs)

\* ------------------------------------------------------------------------
\* metadata.py: clean_metadata
\* ------------------------------------------------------------------------
TECH_INDICATORS ==
    {<<"7", "2", "0", "p">>, <<"1", "0", "8", "0", "p">>, <<"2", "1", "6", "0", "p">>, <<"4", "k">>, <<"x", "2", "6", "4">>, <<"x", "2", "6", "5">>, <<"h", "e", "v", "c">>, <<"h", "2", "6", "4">>, <<"h", "2", "6", "5">>,
     <<"w", "e", "b">>, <<"w", "e", "b", "r", "i", "p">>, <<"w", "e", "b", "d", "l">>, <<"b", "l", "u", "r", "a", "y">>, <<"h", "d", "t", "v">>, <<"a", "a", "c">>, <<"a", "c", "3">>, <<"d", "t", "s">>}

title_needs_cleaning(current_title, wanted) ==
    IF current_title = <<>> THEN FALSE
    ELSE IF current_title = wanted THEN FALSE
    ELSE LET norm_current == normalize(current_title)
             norm_clean == normalize(wanted)
         IN \/ \E indicator \in TECH_INDICATORS : contains(norm_current, indicator)
            \/ norm_current # norm_clean /\ ~startswith(norm_clean, norm_current)

\* clean_metadata on the file system fs: whether the result says changed,
\* and the file system afterwards.  tool_ok tells whether mkvpropedit or
\* ffmpeg is installed and runs without error.
clean_metadata(fs, file_path, wanted, dry_run, tool_ok, cs) ==
    LET sfx == lowerStr(suffix(PathName(file_path)))
        target == entries(fs, file_path, cs)
        written == [q \in DOMAIN fs |-> IF q \in target THEN [fs[q] EXCEPT !.title = wanted] ELSE fs[q]]
    IN IF sfx = <<".", "m", "k", "v">>
       THEN IF dry_run THEN [changed |-> tool_ok, disk |-> fs]
            ELSE IF tool_ok /\ target # {} THEN [changed |-> TRUE, disk |-> written]
            ELSE [changed |-> FALSE, disk |-> fs]
       ELSE IF sfx \in {<<".", "m", "p", "4">>, <<".", "m", "4", "v">>}
       THEN IF ~tool_ok \/ target = {} THEN [changed |-> FALSE, disk |-> fs]
            ELSE IF ~title_needs_cleaning(fs[CHOOSE q \in target : TRUE].title, wanted)
            THEN [changed |-> FALSE, disk |-> fs]
            ELSE IF dry_run THEN [changed |-> TRUE, disk |-> fs]
            ELSE [changed |-> TRUE, disk |-> written]
       ELSE [changed |-> FALSE, disk |-> fs]

\* ------------------------------------------------------------------------
\* Specification SpecCode: EpisodeInfo.format_code on every season and
\* episode up to the bounds
\* ------------------------------------------------------------------------
MaxSeason == 100
MaxEpisode == 1000

FormatCode ==
    /\ code = <<>>
    /\ code' = format_code(code_info)
    /\ UNCHANGED <<code_info, cleanVars, moreVars, parseVars, buildVars, seen_titles, validateVars, runVars>>

\* ------------------------------------------------------------------------
\* Specification SpecBuild: a RenameSession is created for a directory and
\* options, then build_filename is called with the session's series name
\* and base path
\* ------------------------------------------------------------------------
BasePaths ==
    { <<<<"t", "v">>, <<"B", "a", "d", " ", "(", "2", "0", "0", "8", ")">>>>,
      <<<<"t", "v">>, <<"B", "a", "d", " ", "(", "2", "0", "0", "8", ")">>, <<"S", "e", "a", "s", "o", "n", " ", "1">>>>,
      <<<<"t", "v">>, <<"L", "o", "s", "t">>, <<"S", "p", "e", "c", "i", "a", "l", "s">>>>,
      <<<<"t", "v">>, <<"D", "r", ".", "W", "h", "o", " ", "[", "2", "0", "0", "5", "]">>>>,
      <<<<"t", "v">>, <<"S", "0", "1", ".", "P", "a", "c", "k">>>> }

SeriesOptions == { <<>>, <<"L", "o", "s", "t">>, <<"W", "h", "o", " ", "(", "2", "0", "0", "5", ")">> }
Titles == { <<>>, <<"P", "i", "l", "o", "t">> }
Extensions == { <<"m", "k", "v">>, <<"m", "p", "4">> }
Infos == { EpisodeInfo(1, 5), EpisodeInfo(0, 100), EpisodeInfo(12, 7) }

NewSession ==
    /\ bpc = "new"
    /\ \E path \in BasePaths, series \in SeriesOptions, fmt \in all_formats :
          /\ base_path' = path
          /\ options' = RenameOptions(FALSE, FALSE, FALSE, FALSE, fmt, series)
          /\ series_name' = post_init_series_name(path, options')
    /\ bpc' = "session"
    /\ UNCHANGED <<episode_info, title, extension, new_filename, parseVars, codeVars, cleanVars, moreVars, seen_titles, validateVars, runVars>>

BuildFilename ==
    /\ bpc = "session"
    /\ \E ei \in Infos, t \in Titles, ext \in Extensions :
          /\ episode_info' = ei
          /\ title' = t
          /\ extension' = ext
          /\ new_filename' = build_filename(ei, t, ext, series_name, options.output_format, base_path)
    /\ bpc' = "built"
    /\ UNCHANGED <<base_path, options, series_name, parseVars, codeVars, cleanVars, moreVars, seen_titles, validateVars, runVars>>

BuildNext == NewSession \/ BuildFilename

\* ------------------------------------------------------------------------
\* Specification SpecParse: get_season_episode on filenames put together
\* from fragments
\* ------------------------------------------------------------------------
MaxFragments == 3

Fragments ==
    { <<"S", "1">>, <<"s", "0", "2">>, <<"S", "1", "2", "3">>,
      <<"E", "0", "3">>, <<"e", "1", "2", "0">>, <<"E", "1", "2", "3", "4">>,
      <<"2", "x", "0", "0">>, <<"-", " ", "0", "7", " ", "[">>, <<"-", " ", "8", ".">>,
      <<".">>, <<"-">>, <<"_">>, <<" ">>, <<"a">> }

Extend ==
    /\ ppc = "build"
    /\ nfrag < MaxFragments
    /\ \E frag \in Fragments : filename' = filename \o frag
    /\ nfrag' = nfrag + 1
    /\ UNCHANGED <<anime_mode, info, ppc, codeVars, cleanVars, moreVars, buildVars, seen_titles, validateVars, runVars>>

Parse ==
    /\ ppc = "build"
    /\ \E a \in BOOLEAN :
          /\ anime_mode' = a
          /\ info' = get_season_episode(filename, a)
    /\ ppc' = "parsed"
    /\ UNCHANGED <<filename, nfrag, codeVars, cleanVars, moreVars, buildVars, seen_titles, validateVars, runVars>>

ParseNext == Extend \/ Parse

\* ------------------------------------------------------------------------
\* Specification SpecValidate: validate_episode_title is called again and
\* again within one session, on candidates and seasons that repeat
\* ------------------------------------------------------------------------
MaxCalls == 3

ValidateSeries == <<"L", "o", "s", "t", " ", "(", "2", "0", "0", "4", ")">>
\* the series names of the sessions: one with a year, and none
ValidateSeriesNames == { ValidateSeries, <<>> }
Candidates ==
    { <<"P", "i", "l", "o", "t">>, <<" ", "p", "i", "l", "o", "t", "!", " ">>, <<"T", "h", "e", " ", "E", "n", "d">>, <<"E", "p", "i", "s", "o", "d", "e", " ", "5">>, <<" ">>, <<"L", "o", "s", "t">>,
      <<"5">>, <<"E", "p", " ", "1", "2">>, <<"!", "!", "!">>, <<"L", "o", "s", "t", " ", "B", "o", "y", "s">>, <<"L", "o", "s">>, <<"L", "o", "s", "t", " ", "2", "0", "0", "4">> }
Seasons == {1, 2}

NoCall == [candidate |-> <<>>, season |-> 0, title |-> <<>>, passed |-> FALSE, first |-> FALSE]

Validate ==
    /\ ncalls < MaxCalls
    /\ \E candidate \in Candidates, season \in Seasons :
          /\ vcall' = [candidate |-> candidate, season |-> season,
                       title |-> validate_episode_title(candidate, series_name, season, 1, seen_titles).title,
                       passed |-> ~rejected_by_rules(candidate, series_name),
                       first |-> <<season, normalize(strip(candidate))>> \notin vhist]
          /\ seen_titles' = validate_episode_title(candidate, series_name, season, 1, seen_titles).seen
          /\ vhist' = IF rejected_by_rules(candidate, series_name) THEN vhist
                      ELSE vhist \cup {<<season, normalize(strip(candidate))>>}
    /\ ncalls' = ncalls + 1
    /\ UNCHANGED <<series_name, base_path, options, episode_info, title, extension, new_filename, bpc,
                   parseVars, codeVars, cleanVars, moreVars, runVars>>

\* ------------------------------------------------------------------------
\* Specification Spec: main (cli.py) on a directory tree: the files are
\* found and sorted, process_video_file runs on each, the results are
\* printed and, with deep_clean in a real run, the metadata is cleaned
\* ------------------------------------------------------------------------
MaxFiles == 2

Show == <<<<"t", "v">>, <<"L", "o", "s", "t">>>>
Specials == Show \o <<<<"S", "p", "e", "c", "i", "a", "l", "s">>>>
Directories == { <<<<"t", "v">>>>, Show, Specials }
Targets == { Show, <<<<"t", "v">>, <<"M", "i", "s", "s", "i", "n", "g">>>> }

CandidateFiles ==
    { [path |-> Show \o <<<<"L", "o", "s", "t", ".", "S", "0", "1", "E", "0", "1", ".", "P", "i", "l", "o", "t", ".", "m", "k", "v">>>>, id |-> 1, title |-> <<"L", "o", "s", "t", ".", "S", "0", "1", "E", "0", "1", ".", "P", "i", "l", "o", "t", ".", "7", "2", "0", "p", ".", "W", "E", "B">>],
      [path |-> Show \o <<<<"L", "o", "s", "t", ".", "S", "0", "1", "E", "0", "1", ".", "P", "i", "l", "o", "t", ".", "e", "n", ".", "s", "r", "t">>>>, id |-> 2, title |-> <<>>],
      [path |-> Show \o <<<<"l", "o", "s", "t", " ", "-", " ", "s", "0", "1", "e", "0", "2", ".", "m", "k", "v">>>>, id |-> 3, title |-> <<>>],
      [path |-> Show \o <<<<"L", "o", "s", "t", " ", "-", " ", "S", "0", "1", "E", "0", "2", ".", "m", "k", "v">>>>, id |-> 4, title |-> <<"L", "o", "s", "t", " ", "-", " ", "S", "0", "1", "E", "0", "2">>],
      [path |-> Show \o <<<<"L", "o", "s", "t", ".", "S", "0", "1", "E", "0", "2", ".", "m", "k", "v">>>>, id |-> 5, title |-> <<>>],
      [path |-> Show \o <<<<"n", "o", "t", "e", "s", ".", "m", "k", "v">>>>, id |-> 6, title |-> <<>>],
      [path |-> Show \o <<<<"n", "o", "t", "e", "s", ".", "t", "x", "t">>>>, id |-> 7, title |-> <<>>],
      [path |-> Specials \o <<<<"L", "o", "s", "t", ".", "S", "0", "1", "E", "0", "3", ".", "P", "i", "l", "o", "t", ".", "m", "k", "v">>>>, id |-> 8, title |-> <<>>] }

\* the file system that holds the files F
Tree(F) == [p \in {f.path : f \in F} |-> [id |-> (CHOOSE f \in F : f.path = p).id,
                                          title |-> (CHOOSE f \in F : f.path = p).title]]

\* no two files of F differ in letter case only
NoCaseClash(F) == \A f, g \in F : lowerPath(f.path) = lowerPath(g.path) => f = g

\* args.format when --format is absent is the default of the parser; the
\* model keeps apart whether the option was given
NotGiven == "not given"

\* main: after parse_args, the options it hands to the session
main_options(dry_run, force, anime, deep_clean, format, series) ==
    RenameOptions(dry_run, force, anime, deep_clean,
                  IF anime /\ format = SHOW_SXXEXX_TITLE THEN SHOW_SXXEXX ELSE format,
                  series)

\* main up to the list of video files
Start ==
    /\ pc = "start"
    /\ \E target \in Targets, dry_run \in BOOLEAN, force \in BOOLEAN, anime \in BOOLEAN,
          deep_clean \in BOOLEAN :
          IF target \notin Directories
          THEN /\ exit_code' = 1
               /\ pc' = "done"
               /\ UNCHANGED <<base_path, options, series_name, video_files>>
          ELSE /\ base_path' = target
               /\ options' = main_options(dry_run, force, anime, deep_clean, SHOW_SXXEXX_TITLE, <<>>)
               /\ series_name' = post_init_series_name(target, options')
               /\ video_files' \in find_video_files(disk, target)
               /\ pc' = "process"
               /\ UNCHANGED exit_code
    /\ UNCHANGED <<seen_titles, results, idx, ridx, disk, disk0, case_sensitive,
                   episode_info, title, extension, new_filename, bpc,
                   parseVars, codeVars, cleanVars, moreVars, validateVars>>

\* one iteration of the loop of process_directory
ProcessVideoFile ==
    /\ pc = "process"
    /\ idx <= Len(video_files)
    /\ \E out \in process_video_file(video_files[idx], options, series_name, base_path,
                                     seen_titles, disk, case_sensitive) :
          /\ results' = Append(results, out.result)
          /\ disk' = out.disk
          /\ seen_titles' = out.seen
    /\ idx' = idx + 1
    /\ UNCHANGED <<video_files, ridx, pc, exit_code, disk0, case_sensitive,
                   buildVars, parseVars, codeVars, cleanVars, moreVars, validateVars>>

\* process_directory returns the results of the session
ProcessDirectoryReturn ==
    /\ pc = "process"
    /\ idx > Len(video_files)
    /\ pc' = "print"
    /\ UNCHANGED <<seen_titles, results, video_files, idx, ridx, exit_code, disk, disk0, case_sensitive,
                   buildVars, parseVars, codeVars, cleanVars, moreVars, validateVars>>

\* one iteration of the loop of main over the results
PrintResult ==
    /\ pc = "print"
    /\ ridx <= Len(results)
    /\ IF /\ results[ridx].success
          /\ ~results[ridx].skipped
          /\ options.deep_clean
          /\ ~options.dry_run
       THEN \E tool_ok \in BOOLEAN :
               disk' = clean_metadata(disk, results[ridx].new_path, stem(PathName(results[ridx].new_path)),
                                      options.dry_run, tool_ok, case_sensitive).disk
       ELSE disk' = disk
    /\ ridx' = ridx + 1
    /\ UNCHANGED <<seen_titles, results, video_files, idx, pc, exit_code, disk0, case_sensitive,
                   buildVars, parseVars, codeVars, cleanVars, moreVars, validateVars>>

\* main prints the summary and returns 0
Summary ==
    /\ pc = "print"
    /\ ridx > Len(results)
    /\ pc' = "done"
    /\ exit_code' = 0
    /\ UNCHANGED <<seen_titles, results, video_files, idx, ridx, disk, disk0, case_sensitive,
                   buildVars, parseVars, codeVars, cleanVars, moreVars, validateVars>>

Next == Start \/ ProcessVideoFile \/ ProcessDirectoryReturn \/ PrintResult \/ Summary

\* ------------------------------------------------------------------------
\* Initial states and specifications
\* ------------------------------------------------------------------------
\* Nothing has been called yet
Init ==
    /\ filename = <<>>
    /\ anime_mode = FALSE
    /\ info = None
    /\ nfrag = 0
    /\ ppc = "build"
    /\ code_info = EpisodeInfo(0, 1)
    /\ code = <<>>
    /\ base_path = <<>>
    /\ options = RenameOptions(FALSE, FALSE, FALSE, FALSE, SHOW_SXXEXX_TITLE, <<>>)
    /\ series_name = <<>>
    /\ episode_info = None
    /\ title = <<>>
    /\ extension = <<>>
    /\ new_filename = <<>>
    /\ bpc = "new"
    /\ seen_titles = {}
    /\ vcall = NoCall
    /\ vhist = {}
    /\ ncalls = 0
    /\ disk = <<>>
    /\ disk0 = <<>>
    /\ case_sensitive = TRUE
    /\ video_files = <<>>
    /\ idx = 1
    /\ results = <<>>
    /\ ridx = 1
    /\ pc = "start"
    /\ exit_code = -1
    /\ title_part = <<>>
    /\ tech_tail = <<>>
    /\ cleaned = <<>>
    /\ recleaned = <<>>
    /\ cpc = "new"
    /\ args_format = NotGiven
    /\ year_free_name = <<>>

\* format_code is about to be called on some season and episode
CodeInit ==
    /\ filename = <<>>
    /\ anime_mode = FALSE
    /\ info = None
    /\ nfrag = 0
    /\ ppc = "build"
    /\ code_info \in {EpisodeInfo(s, e) : s \in 0..MaxSeason, e \in 1..MaxEpisode}
    /\ code = <<>>
    /\ base_path = <<>>
    /\ options = RenameOptions(FALSE, FALSE, FALSE, FALSE, SHOW_SXXEXX_TITLE, <<>>)
    /\ series_name = <<>>
    /\ episode_info = None
    /\ title = <<>>
    /\ extension = <<>>
    /\ new_filename = <<>>
    /\ bpc = "new"
    /\ seen_titles = {}
    /\ vcall = NoCall
    /\ vhist = {}
    /\ ncalls = 0
    /\ disk = <<>>
    /\ disk0 = <<>>
    /\ case_sensitive = TRUE
    /\ video_files = <<>>
    /\ idx = 1
    /\ results = <<>>
    /\ ridx = 1
    /\ pc = "start"
    /\ exit_code = -1
    /\ title_part = <<>>
    /\ tech_tail = <<>>
    /\ cleaned = <<>>
    /\ recleaned = <<>>
    /\ cpc = "new"
    /\ args_format = NotGiven
    /\ year_free_name = <<>>

\* A session for one of the series names exists and no title has been
\* validated yet
ValidateInit ==
    /\ filename = <<>>
    /\ anime_mode = FALSE
    /\ info = None
    /\ nfrag = 0
    /\ ppc = "build"
    /\ code_info = EpisodeInfo(0, 1)
    /\ code = <<>>
    /\ base_path = <<>>
    /\ options = RenameOptions(FALSE, FALSE, FALSE, FALSE, SHOW_SXXEXX_TITLE, <<>>)
    /\ series_name \in ValidateSeriesNames
    /\ episode_info = None
    /\ title = <<>>
    /\ extension = <<>>
    /\ new_filename = <<>>
    /\ bpc = "new"
    /\ seen_titles = {}
    /\ vcall = NoCall
    /\ vhist = {}
    /\ ncalls = 0
    /\ disk = <<>>
    /\ disk0 = <<>>
    /\ case_sensitive = TRUE
    /\ video_files = <<>>
    /\ idx = 1
    /\ results = <<>>
    /\ ridx = 1
    /\ pc = "start"
    /\ exit_code = -1
    /\ title_part = <<>>
    /\ tech_tail = <<>>
    /\ cleaned = <<>>
    /\ recleaned = <<>>
    /\ cpc = "new"
    /\ args_format = NotGiven
    /\ year_free_name = <<>>

\* main is about to run on a tree of at most MaxFiles files
MainInit ==
    /\ filename = <<>>
    /\ anime_mode = FALSE
    /\ info = None
    /\ nfrag = 0
    /\ ppc = "build"
    /\ code_info = EpisodeInfo(0, 1)
    /\ code = <<>>
    /\ base_path = <<>>
    /\ options = RenameOptions(FALSE, FALSE, FALSE, FALSE, SHOW_SXXEXX_TITLE, <<>>)
    /\ series_name = <<>>
    /\ episode_info = None
    /\ title = <<>>
    /\ extension = <<>>
    /\ new_filename = <<>>
    /\ bpc = "new"
    /\ seen_titles = {}
    /\ vcall = NoCall
    /\ vhist = {}
    /\ ncalls = 0
    /\ case_sensitive \in BOOLEAN
    /\ disk \in {Tree(F) : F \in {G \in SUBSET CandidateFiles :
                                     Cardinality(G) <= MaxFiles /\ (case_sensitive \/ NoCaseClash(G))}}
    /\ disk0 = disk
    /\ video_files = <<>>
    /\ idx = 1
    /\ results = <<>>
    /\ ridx = 1
    /\ pc = "start"
    /\ exit_code = -1
    /\ title_part = <<>>
    /\ tech_tail = <<>>
    /\ cleaned = <<>>
    /\ recleaned = <<>>
    /\ cpc = "new"
    /\ args_format = NotGiven
    /\ year_free_name = <<>>

SpecParse == Init /\ [][ParseNext]_vars

SpecBuild == Init /\ [][BuildNext]_vars

SpecCode == CodeInit /\ [][FormatCode]_vars

SpecValidate == ValidateInit /\ [][Validate]_vars

Spec == MainInit /\ [][Next]_vars

\* The result of one pattern family alone (None when the family does not match)
FamilySxxExx(name) ==
    LET m == search(PATTERN_SXXEXX, name, TRUE)
    IN IF m.found THEN EpisodeInfo(int(group(m, name, 1)), int(group(m, name, 2))) ELSE None
FamilyNxNN(name) ==
    LET m == search(PATTERN_NXNN, name, TRUE)
    IN IF m.found THEN EpisodeInfo(int(group(m, name, 1)), int(group(m, name, 2))) ELSE None
FamilyExx(name) ==
    LET m == search(PATTERN_EXX, name, TRUE)
    IN IF m.found THEN EpisodeInfo(1, int(group(m, name, 1))) ELSE None
FamilyAnime(name) ==
    LET m == search(PATTERN_ANIME, name, FALSE)
    IN IF m.found THEN EpisodeInfo(1, int(group(m, name, 1))) ELSE None

\* The first element of a sequence of family results that is not None
RECURSIVE FirstOf(_)
FirstOf(rs) == IF rs = <<>> THEN None
               ELSE IF Head(rs) # None THEN Head(rs) ELSE FirstOf(Tail(rs))

\* C1: get_season_episode follows the priority policy.  Without anime_mode
\* the result is that of the first matching family in the order SxxExx,
\* NxNN, Exx, Anime; with anime_mode it is the Anime result when Anime
\* matches and otherwise the first of SxxExx, NxNN, Exx; the result is None
\* exactly when no family matches; the two modes differ only on filenames
\* that match Anime and a standard family.
PriorityPolicy ==
    ppc = "parsed" =>
        LET fs == FamilySxxExx(filename)
            fn == FamilyNxNN(filename)
            fe == FamilyExx(filename)
            fa == FamilyAnime(filename)
        IN /\ ~anime_mode => info = FirstOf(<<fs, fn, fe, fa>>)
           /\ anime_mode => info = IF fa # None THEN fa ELSE FirstOf(<<fs, fn, fe>>)
           /\ (info = None) <=> (fs = None /\ fn = None /\ fe = None /\ fa = None)
           /\ get_season_episode(filename, TRUE) # get_season_episode(filename, FALSE)
                 => fa # None /\ FirstOf(<<fs, fn, fe>>) # None

\* C1 witness: anime_mode takes the Anime episode of a name that also has a
\* standard code, and a name matching only Anime was parsed without anime_mode
PriorityPolicyWitness ==
    /\ ppc = "parsed"
    /\ \/ /\ anime_mode
          /\ FamilySxxExx(filename) # None
          /\ FamilyAnime(filename) # None
          /\ info = FamilyAnime(filename)
          /\ info # FamilySxxExx(filename)
       \/ /\ ~anime_mode
          /\ FirstOf(<<FamilySxxExx(filename), FamilyNxNN(filename), FamilyExx(filename)>>) = None
          /\ info # None

\* Length of the run of characters of C that starts at position p of s
RECURSIVE RunLen(_, _, _)
RunLen(s, p, C) == IF p <= Len(s) /\ s[p] \in C THEN 1 + RunLen(s, p + 1, C) ELSE 0

SepChars == {".", "-", "_", " "}

\* An occurrence of S<digits><separators>E<digits> at position i of s,
\* with its digit strings
SEOccurrence(s, i) ==
    LET a == RunLen(s, i + 1, Digit)
        b == RunLen(s, i + 1 + a, SepChars)
        p == i + 1 + a + b
        c == RunLen(s, p + 1, Digit)
    IN [ok |-> s[i] \in {"S", "s"} /\ a >= 1 /\ p <= Len(s) /\ s[p] \in {"E", "e"} /\ c >= 1,
        season |-> SubSeq(s, i + 1, i + a),
        episode |-> SubSeq(s, p + 1, p + c)]

HasSE(s) == \E i \in 1..Len(s) : SEOccurrence(s, i).ok
FirstSE(s) == SEOccurrence(s, CHOOSE i \in 1..Len(s) :
                  SEOccurrence(s, i).ok /\ \A j \in 1..(i - 1) : ~SEOccurrence(s, j).ok)

\* C9 as stated: for digit strings of any length the result is the pair of
\* numbers they denote
SxxExxAnyLength ==
    (ppc = "parsed" /\ ~anime_mode /\ HasSE(filename)) =>
        info = EpisodeInfo(int(FirstSE(filename).season), int(FirstSE(filename).episode))

\* C9 amended: when the first S<digits>E<digits> of the filename has one or
\* two season digits and one to three episode digits, get_season_episode
\* without anime_mode returns the numbers these digit strings denote,
\* whatever the separator and the zero-padding.
SxxExxExact ==
    (/\ ppc = "parsed" /\ ~anime_mode /\ HasSE(filename)
     /\ Len(FirstSE(filename).season) <= 2
     /\ Len(FirstSE(filename).episode) <= 3) =>
        info = EpisodeInfo(int(FirstSE(filename).season), int(FirstSE(filename).episode))

\* C9 witness: s02.E03 was parsed as season 2, episode 3
SxxExxExactWitness ==
    /\ ppc = "parsed" /\ ~anime_mode
    /\ filename = <<"s", "0", "2", ".", "E", "0", "3">>
    /\ info = EpisodeInfo(2, 3)

\* C10: for every season in 0..99 and episode in 1..999 format_code gives
\* 'S', the season zero-padded to two digits, 'E' and the episode
\* zero-padded to two digits when it is below 100 and to three digits from
\* 100 on.
FormatCodeShape ==
    (code # <<>> /\ code_info.season <= 99 /\ code_info.episode <= 999) =>
        /\ Len(code) = (IF code_info.episode < 100 THEN 6 ELSE 7)
        /\ code[1] = "S"
        /\ code[4] = "E"
        /\ \A k \in (1..Len(code)) \ {1, 4} : code[k] \in Digit
        /\ int(SubSeq(code, 2, 3)) = code_info.season
        /\ int(SubSeq(code, 5, Len(code))) = code_info.episode

\* C10 witness: season 1, episode 100 was formatted as S01E100
FormatCodeShapeWitness ==
    /\ code_info = EpisodeInfo(1, 100)
    /\ code = <<"S", "0", "1", "E", "1", "0", "0">>

IsSuffix(t, s) == Len(t) <= Len(s) /\ SubSeq(s, Len(s) - Len(t) + 1, Len(s)) = t

\* The cell of the template grid for an output format, by what is present
GridCell(fmt, hasT, hasS) ==
    CASE fmt \in {SHOW_YEAR_SXXEXX_TITLE, SHOW_SXXEXX_TITLE} ->
            IF hasT /\ hasS THEN "SET" ELSE IF hasS THEN "SE" ELSE IF hasT THEN "ET" ELSE "E"
      [] fmt \in {SHOW_YEAR_SXXEXX, SHOW_SXXEXX} -> IF hasS THEN "SE" ELSE "E"
      [] fmt = SXXEXX_TITLE -> IF hasT THEN "ET" ELSE "E"
      [] fmt = SXXEXX -> "E"

\* out has the shape of the cell: a non-empty series component where the
\* template has S (the series name itself in the formats with year), the
\* episode code, the title where the template has T, and the extension
HasShape(out, cell, fmt, series, E, T, ext) ==
    LET withYear == fmt \in {SHOW_YEAR_SXXEXX_TITLE, SHOW_YEAR_SXXEXX}
        tailSET == DASH \o E \o DASH \o T \o <<".">> \o ext
        tailSE == DASH \o E \o <<".">> \o ext
    IN CASE cell = "SET" -> /\ IsSuffix(tailSET, out) /\ Len(out) > Len(tailSET)
                            /\ withYear => out = series \o tailSET
         [] cell = "SE" -> /\ IsSuffix(tailSE, out) /\ Len(out) > Len(tailSE)
                           /\ withYear => out = series \o tailSE
         [] cell = "ET" -> out = E \o DASH \o T \o <<".">> \o ext
         [] cell = "E" -> out = E \o <<".">> \o ext

\* C7: build_filename is a lookup in the grid of the six formats by
\* {title present, series name present}: every cell yields its template and
\* no component is emitted that the format does not name.
TemplateGrid ==
    bpc = "built" =>
        HasShape(new_filename,
                 GridCell(options.output_format, title # <<>>, series_name # <<>>),
                 options.output_format, series_name, format_code(episode_info), title, extension)

\* C8: in the year-free formats the series component is the session's
\* series name with its year removed, also for a series name given by the
\* user.
YearFreeSeries ==
    (/\ bpc = "built"
     /\ options.output_format \in {SHOW_SXXEXX_TITLE, SHOW_SXXEXX}
     /\ remove_year(series_name) # <<>>) =>
        new_filename =
            remove_year(series_name) \o DASH \o format_code(episode_info)
            \o (IF options.output_format = SHOW_SXXEXX_TITLE /\ title # <<>>
                THEN DASH \o title ELSE <<>>)
            \o <<".">> \o extension

\* ------------------------------------------------------------------------
\* Claims about the validator's seen-titles set (SpecValidate)
\* ------------------------------------------------------------------------
\* C3: over any sequence of validate_episode_title calls on one seen-titles
\* set, a candidate that passes rules (a)-(c) is accepted (returned
\* stripped) when it is the first to pass with its season and normalized
\* title, and rejected (the empty title is returned) when the same pair has
\* passed before; the same normalized title in another season is a
\* different pair and is not rejected.
DedupPerSeason ==
    (ncalls > 0 /\ vcall.passed) =>
        IF vcall.first
        THEN vcall.title = strip(vcall.candidate) /\ vcall.title # <<>>
        ELSE vcall.title = <<>>

\* C3 witness: a title was accepted in one season after the same normalized
\* title had passed in the other season, and before that a second
\* occurrence in one season was rejected
DedupPerSeasonWitness ==
    /\ ncalls = MaxCalls
    /\ vcall.passed
    /\ vcall.first
    /\ vcall.title # <<>>
    /\ \E pair \in vhist :
          pair[2] = normalize(strip(vcall.candidate)) /\ pair[1] # vcall.season
    /\ Cardinality(vhist) = 2

\* C4: the seen-titles set changes only when validate_episode_title accepts:
\* an accepting call adds exactly one new key, the season, "_" and the
\* normalized candidate; a rejecting call leaves the set as it is; no step
\* removes a key.
SeenTitlesGrowOnAccept ==
    [][/\ seen_titles \subseteq seen_titles'
       /\ ncalls' = ncalls + 1 =>
             IF vcall'.title # <<>>
             THEN /\ str(vcall'.season) \o <<"_">> \o normalize(strip(vcall'.candidate)) \notin seen_titles
                  /\ seen_titles' = seen_titles \cup
                        {str(vcall'.season) \o <<"_">> \o normalize(strip(vcall'.candidate))}
             ELSE seen_titles' = seen_titles]_vars

\* C4 witness: three calls, of which one was accepted, one rejected by a
\* rule and one rejected as a duplicate, left one key
SeenTitlesGrowOnAcceptWitness ==
    /\ ncalls = MaxCalls
    /\ Cardinality(seen_titles) = 1
    /\ Cardinality(vhist) = 1
    /\ vcall.title = <<>>
    /\ vcall.passed
    /\ ~vcall.first

\* ------------------------------------------------------------------------
\* Claims about a run of main on a directory tree (Spec)
\* ------------------------------------------------------------------------
\* C2: when get_season_episode finds no episode pattern in a file's name,
\* process_video_file changes nothing on disk (neither the video nor a
\* companion is renamed), adds nothing to the seen-titles set and returns a
\* result with success False whose new_path is the old path: no season or
\* episode is made up for the file.
UnparseableUntouched ==
    [][(/\ pc = "process"
        /\ idx' = idx + 1
        /\ get_season_episode(PathName(video_files[idx]), options.anime_mode) = None)
       => /\ disk' = disk
          /\ seen_titles' = seen_titles
          /\ Len(results') = Len(results) + 1
          /\ SubSeq(results', 1, Len(results)) = results
          /\ ~results'[Len(results')].success
          /\ results'[Len(results')].old_path = video_files[idx]
          /\ results'[Len(results')].new_path = video_files[idx]]_vars

\* C2 witness: a real run is over in which a video without episode pattern,
\* whose companion lies next to it, was reported as a failure
UnparseableUntouchedWitness ==
    /\ pc = "done"
    /\ ~options.dry_run
    /\ \E k \in 1..Len(results) :
          /\ get_season_episode(PathName(results[k].old_path), options.anime_mode) = None
          /\ ~results[k].success
          /\ results[k].new_path = results[k].old_path
          /\ \E p \in DOMAIN disk :
                /\ p # results[k].old_path
                /\ lowerStr(suffix(PathName(p))) \in COMPANION_EXTENSIONS
                /\ startswith(PathName(p), stem(PathName(results[k].old_path)))

\* C5: in a dry run nothing on disk changes: at every point of main after
\* the options are read, every file has the name, the data and the
\* container title it had when main started.
DryRunChangesNothing ==
    (pc # "start" /\ options.dry_run) => disk = disk0

\* C5 witness: a dry run with deep_clean is over that reported "Would
\* rename" for a video with a metadata title and a companion file
DryRunChangesNothingWitness ==
    /\ pc = "done"
    /\ options.dry_run
    /\ options.deep_clean
    /\ \E k \in 1..Len(results) :
          /\ results[k].message = "Would rename"
          /\ results[k].old_path \in DOMAIN disk
          /\ disk[results[k].old_path].title # <<>>
          /\ \E p \in DOMAIN disk :
                /\ p # results[k].old_path
                /\ lowerStr(suffix(PathName(p))) \in COMPANION_EXTENSIONS
                /\ startswith(PathName(p), stem(PathName(results[k].old_path)))

\* C6: without force no rename overwrites a file: the data of every file
\* that was there when main started is still there, under the old name or a
\* new one.
NoFileOverwritten ==
    (~options.force) =>
        \A p \in DOMAIN disk0 : \E q \in DOMAIN disk : disk[q].id = disk0[p].id

\* ------------------------------------------------------------------------
\* Claims about the EpisodeInfo that get_season_episode returns (SpecParse)
\* ------------------------------------------------------------------------
\* C11: every EpisodeInfo that get_season_episode returns has a season that
\* is not negative and an episode that is at least 1.
EpisodePositive ==
    (ppc = "parsed" /\ info # None) => (info.season >= 0 /\ info.episode >= 1)

\* ------------------------------------------------------------------------
\* Claims about the rejection rules of validate_episode_title (SpecValidate)
\* ------------------------------------------------------------------------
\* t occurs in s (the empty string occurs in every string)
IsSubstring(t, s) == \E p \in 0..(Len(s) - Len(t)) : SubSeq(s, p + 1, p + Len(t)) = t

\* the series name without its year in parentheses
YearFree(series) == sub(RE_PAREN_YEAR, Empty, series, FALSE)

IsEpisodeNumber(s) ==
    LET rest == IF IsPrefixAt(<<"e", "p", "i", "s", "o", "d", "e">>, s, 0) THEN SubSeq(s, 8, Len(s))
                ELSE IF IsPrefixAt(<<"e", "p">>, s, 0) THEN SubSeq(s, 3, Len(s))
                ELSE s
    IN rest # <<>> /\ \A k \in 1..Len(rest) : rest[k] \in Digit

\* C13: a candidate whose normalized form is a number, or "episode" or "ep"
\* followed by a number, is rejected, whatever the series name, the season
\* and the seen-titles set are.
EpisodeNumberRejected ==
    (ncalls > 0 /\ IsEpisodeNumber(normalize(vcall.candidate))) => vcall.title = <<>>

\* C13 witness: "Ep 12" was rejected in a session without series name whose
\* seen-titles set is not empty
EpisodeNumberRejectedWitness ==
    /\ ncalls > 0
    /\ series_name = <<>>
    /\ seen_titles # {}
    /\ vcall.candidate = <<"E", "p", " ", "1", "2">>
    /\ vcall.title = <<>>

\* ------------------------------------------------------------------------
\* Claims about the Specials folder (Spec)
\* ------------------------------------------------------------------------
\* the file is in a folder named Specials or Special, in any letter case
InSpecials(file_path) ==
    lowerStr(PathName(PathParent(file_path))) \in {<<"s", "p", "e", "c", "i", "a", "l", "s">>, <<"s", "p", "e", "c", "i", "a", "l">>}

\* the season process_video_file has to use for a file with the parsed season
SeasonOf(file_path, parsed) == IF InSpecials(file_path) THEN 0 ELSE parsed.season

\* C14: for a file in a folder named Specials or Special process_video_file
\* uses season 0 and the parsed episode, for a file in any other folder the
\* parsed season and episode: the new filename has the code of that season
\* and episode, and a key added to the seen-titles set begins with that
\* season.
SpecialsSeasonZero ==
    [][(/\ pc = "process"
        /\ idx' = idx + 1
        /\ get_season_episode(PathName(video_files[idx]), options.anime_mode) # None)
       => LET parsed == get_season_episode(PathName(video_files[idx]), options.anime_mode)
              season == SeasonOf(video_files[idx], parsed)
          IN /\ IsSubstring(format_code(EpisodeInfo(season, parsed.episode)),
                            PathName(results'[Len(results')].new_path))
             /\ \A key \in seen_titles' \ seen_titles : IsPrefixAt(str(season) \o <<"_">>, key, 0)]_vars

\* C14 witness: a run is over in which the Pilot of season 1 and a Pilot in
\* the Specials folder, parsed as S01E03, both kept their title, the second
\* under the code S00E03
SpecialsSeasonZeroWitness ==
    /\ pc = "done"
    /\ seen_titles = {<<"1", "_", "p", "i", "l", "o", "t">>, <<"0", "_", "p", "i", "l", "o", "t">>}
    /\ \E k \in 1..Len(results) :
          /\ InSpecials(results[k].old_path)
          /\ get_season_episode(PathName(results[k].old_path), options.anime_mode) = EpisodeInfo(1, 3)
          /\ PathName(results[k].new_path) = <<"L", "o", "s", "t", " ", "-", " ", "S", "0", "0", "E", "0", "3", " ", "-", " ", "P", "i", "l", "o", "t", ".", "m", "k", "v">>

\* ------------------------------------------------------------------------
\* clean_title on fragments: a title part followed by technical metadata
\* ------------------------------------------------------------------------
\* titles of plain words
PlainTitles == {<<"P", "i", "l", "o", "t">>, <<"E", "p", "i", "s", "o", "d", "e", " ", "T", "i", "t", "l", "e">>, <<"T", "h", "e", " ", "F", "i", "n", "a", "l", " ", "C", "u", "t">>, <<"T", "h", "e", " ", "L", "o", "n", "g", " ", "G", "o", "o", "d", "b", "y", "e">>}

\* the parentheticals of MEANINGFUL_PAREN as they are written in a fragment
\* and as they read with spaces inside
Parentheticals ==
    { [text |-> <<"(", "P", "a", "r", "t", ".", "1", ")">>, spaced |-> <<"(", "P", "a", "r", "t", " ", "1", ")">>],
      [text |-> <<"(", "P", "a", "r", "t", " ", "2", ")">>, spaced |-> <<"(", "P", "a", "r", "t", " ", "2", ")">>],
      [text |-> <<"(", "3", ")">>, spaced |-> <<"(", "3", ")">>],
      [text |-> <<"(", "E", "x", "t", "e", "n", "d", "e", "d", " ", "C", "u", "t", ")">>, spaced |-> <<"(", "E", "x", "t", "e", "n", "d", "e", "d", " ", "C", "u", "t", ")">>],
      [text |-> <<"(", "D", "i", "r", "e", "c", "t", "o", "r", "'", "s", ".", "C", "u", "t", ")">>, spaced |-> <<"(", "D", "i", "r", "e", "c", "t", "o", "r", "'", "s", " ", "C", "u", "t", ")">>],
      [text |-> <<"(", "D", "i", "r", "e", "c", "t", "o", "r", "s", "_", "C", "u", "t", ")">>, spaced |-> <<"(", "D", "i", "r", "e", "c", "t", "o", "r", "s", " ", "C", "u", "t", ")">>],
      [text |-> <<"(", "F", "i", "n", "a", "l", " ", "C", "u", "t", ")">>, spaced |-> <<"(", "F", "i", "n", "a", "l", " ", "C", "u", "t", ")">>],
      [text |-> <<"(", "U", "n", "r", "a", "t", "e", "d", ")">>, spaced |-> <<"(", "U", "n", "r", "a", "t", "e", "d", ")">>],
      [text |-> <<"(", "T", "h", "e", "a", "t", "r", "i", "c", "a", "l", ")">>, spaced |-> <<"(", "T", "h", "e", "a", "t", "r", "i", "c", "a", "l", ")">>] }

ParenTitles == { <<"E", "p", "i", "s", "o", "d", "e", " ", "T", "i", "t", "l", "e">> \o sp \o p.text : sp \in {<<" ">>, <<".">>}, p \in Parentheticals }

\* an ellipsis at the start, in the middle, at the end and after a hyphen
EllipsisTitles == {<<".", ".", ".", "A", "n", "d", " ", "T", "h", "e", "n">>, <<"W", "a", "i", "t", ".", ".", ".", "W", "h", "a", "t">>, <<"W", "h", "a", "t", ".", ".", ".">>, <<"W", "a", "i", "t", "-", ".", ".", ".">>, <<"W", "a", "i", "t", " ", "-", " ", ".", ".", ".", " ", "G", "o">>}

\* the word Web, or a word that begins with it, first, in the middle and last
WebTitles == {<<"W", "e", "b", ".", "O", "f", ".", "L", "i", "e", "s">>, <<"T", "h", "e", ".", "W", "e", "b", ".", "O", "f", ".", "L", "i", "e", "s">>, <<"C", "h", "a", "r", "l", "o", "t", "t", "e", "s", ".", "W", "e", "b">>, <<"S", "p", "i", "d", "e", "r", " ", "W", "e", "b">>,
              <<"W", "e", "b", "s", "t", "e", "r", ".", "C", "o", "m", "e", "s", ".", "H", "o", "m", "e">>, <<"D", "a", "n", "i", "e", "l", ".", "W", "e", "b", "s", "t", "e", "r">>}

\* tokens after a trailing hyphen
ReleaseTokens == {<<"D", "I", "M", "E", "N", "S", "I", "O", "N">>, <<"L", "O", "L">>, <<"Y", "T", "S">>, <<"A", "B">>, <<"A", "1">>, <<"7">>, <<"2", "n", "d">>, <<"a", "b", "1", "c">>,
                  <<"a", "b", "c">>, <<"P", "a", "r", "t">>, <<"G", "a", "m", "e">>, <<"N", "F">>, <<"C", "u", "t">>, <<"M", "a", "x">>}

GroupTitles == { <<"T", "i", "t", "l", "e", "-">> \o tok : tok \in ReleaseTokens }

TitleParts == PlainTitles \cup ParenTitles \cup EllipsisTitles \cup WebTitles \cup GroupTitles

\* technical metadata after the title part
TechTails == {<<>>, <<".", "7", "2", "0", "p">>, <<".", "x", "2", "6", "4">>, <<".", "W", "E", "B", ".", "x", "2", "6", "4", "-", "G", "R", "O", "U", "P">>, <<" ", "1", "0", "8", "0", "p", " ", "W", "E", "B", "-", "D", "L">>,
              <<" ", "(", "1", "0", "8", "0", "p", " ", "B", "l", "u", "R", "a", "y", ")">>, <<" ", "[", "1", "0", "8", "0", "p", "]">>}

\* clean_title is about to be called on some fragment
CleanInit ==
    /\ filename = <<>>
    /\ anime_mode = FALSE
    /\ info = None
    /\ nfrag = 0
    /\ ppc = "build"
    /\ code_info = EpisodeInfo(0, 1)
    /\ code = <<>>
    /\ base_path = <<>>
    /\ options = RenameOptions(FALSE, FALSE, FALSE, FALSE, SHOW_SXXEXX_TITLE, <<>>)
    /\ series_name = <<>>
    /\ episode_info = None
    /\ title = <<>>
    /\ extension = <<>>
    /\ new_filename = <<>>
    /\ bpc = "new"
    /\ seen_titles = {}
    /\ vcall = NoCall
    /\ vhist = {}
    /\ ncalls = 0
    /\ disk = <<>>
    /\ disk0 = <<>>
    /\ case_sensitive = TRUE
    /\ video_files = <<>>
    /\ idx = 1
    /\ results = <<>>
    /\ ridx = 1
    /\ pc = "start"
    /\ exit_code = -1
    /\ title_part \in TitleParts
    /\ tech_tail \in TechTails
    /\ cleaned = <<>>
    /\ recleaned = <<>>
    /\ cpc = "new"
    /\ args_format = NotGiven
    /\ year_free_name = <<>>

\* clean_title(fragment)
CleanTitle ==
    /\ cpc = "new"
    /\ args_format = NotGiven
    /\ year_free_name = <<>>
    /\ cleaned' = clean_title(title_part \o tech_tail, <<>>)
    /\ cpc' = "cleaned"
    /\ UNCHANGED <<title_part, tech_tail, recleaned, moreVars, parseVars, codeVars, buildVars, seen_titles, validateVars, runVars>>

\* clean_title of what clean_title returned
CleanAgain ==
    /\ cpc = "cleaned"
    /\ recleaned' = clean_title(cleaned, <<>>)
    /\ cpc' = "recleaned"
    /\ UNCHANGED <<title_part, tech_tail, cleaned, moreVars, parseVars, codeVars, buildVars, seen_titles, validateVars, runVars>>

CleanNext == CleanTitle \/ CleanAgain

SpecClean == CleanInit /\ [][CleanNext]_vars

\* ------------------------------------------------------------------------
\* Claims about clean_title (SpecClean)
\* ------------------------------------------------------------------------
\* s with every dot and underscore replaced by a space
Spaced(s) == [k \in 1..Len(s) |-> IF s[k] \in {".", "_"} THEN " " ELSE s[k]]

\* number of occurrences of t in s, counted from the left without overlap
RECURSIVE CountFrom(_, _, _)
CountFrom(t, s, p) ==
    IF p + Len(t) > Len(s) THEN 0
    ELSE IF IsPrefixAt(t, s, p) THEN 1 + CountFrom(t, s, p + Len(t))
    ELSE CountFrom(t, s, p + 1)

\* C15: a whitelisted parenthetical in the title part of the fragment is in
\* the title clean_title returns, with spaces as its inner separators, and
\* the technical metadata after it is not.
MeaningfulParentheticalKept ==
    cpc # "new" =>
        \A p \in Parentheticals :
            IsSubstring(p.text, title_part) =>
                /\ IsSubstring(p.spaced, cleaned)
                /\ cleaned = Spaced(title_part)

\* C16: the title clean_title returns holds every "..." of the title part
\* of the fragment.
EllipsisKept ==
    cpc # "new" =>
        CountFrom(<<".", ".", ".">>, cleaned, 0) >= CountFrom(<<".", ".", ".">>, title_part, 0)

\* C17: for a title part with the word Web, or a word that begins with Web,
\* followed by technical tags, clean_title returns the words of the title
\* part and nothing of the tags.
WebWordKept ==
    (cpc # "new" /\ title_part \in WebTitles /\ tech_tail # <<>>) =>
        cleaned = Spaced(title_part)

\* TOKEN is made of capital letters and digits only and has three or more
\* of them, or is made of letters and digits and has a digit
ReleaseShape(tok) ==
    \/ Len(tok) >= 3 /\ \A k \in 1..Len(tok) : tok[k] \in Upper \cup Digit
    \/ /\ \A k \in 1..Len(tok) : tok[k] \in Upper \cup LowerCh \cup Digit
       /\ \E k \in 1..Len(tok) : tok[k] \in Digit

\* the words of the codec, source, platform and audio steps and the common
\* tags, in small letters
TechnicalWords ==
    {<<"x", "2", "6", "4">>, <<"x", "2", "6", "5">>, <<"h", "e", "v", "c">>, <<"h", "2", "6", "4">>, <<"h", "2", "6", "5">>,
     <<"w", "e", "b", "r", "i", "p">>, <<"b", "l", "u", "r", "a", "y">>, <<"b", "d", "r", "i", "p">>, <<"d", "v", "d", "r", "i", "p">>, <<"h", "d", "t", "v">>, <<"p", "d", "t", "v">>,
     <<"a", "m", "z", "n">>, <<"n", "f", "l", "x">>, <<"n", "f">>, <<"h", "u", "l", "u">>, <<"d", "s", "n", "p">>, <<"h", "b", "o">>, <<"m", "a", "x">>, <<"h", "m", "a", "x">>,
     <<"a", "a", "c">>, <<"a", "c", "3">>, <<"d", "t", "s">>, <<"d", "d", "p">>, <<"d", "d">>, <<"d", "l">>,
     <<"f", "i", "x", "e", "d">>, <<"r", "e", "p", "a", "c", "k">>, <<"p", "r", "o", "p", "e", "r">>, <<"i", "n", "t", "e", "r", "n", "a", "l">>, <<"e", "x", "t", "e", "n", "d", "e", "d">>, <<"u", "n", "c", "u", "t">>,
     <<"d", "i", "r", "e", "c", "t", "o", "r", "s">>, <<"c", "u", "t">>, <<"d", "u", "b", "b", "e", "d">>, <<"s", "u", "b", "b", "e", "d">>}

\* the tails that leave the token last once the metadata is cut off
CutTails == TechTails \ {<<" ", "[", "1", "0", "8", "0", "p", "]">>}

CleanIdempotent ==
    /\ (cpc # "new" /\ title_part \in PlainTitles /\ tech_tail = <<>>) => cleaned = title_part
    /\ cpc = "recleaned" => recleaned = cleaned

\* ------------------------------------------------------------------------
\* get_episode_title on filenames: series, episode code, title, extension
\* ------------------------------------------------------------------------
TitleSeries == <<"S", "h", "o", "w">>

\* an episode code of each pattern family with the separators around it, and
\* what is left of it when the code and the separators after it are removed
CodeStyles ==
    { [text |-> <<".", "S", "0", "1", "E", "0", "2", ".">>, rest |-> <<".">>],
      [text |-> <<" ", "-", " ", "1", "x", "0", "2", " ", "-", " ">>, rest |-> <<" ", "-", " ">>],
      [text |-> <<".", "E", "0", "2", ".">>, rest |-> <<".">>],
      [text |-> <<" ", "-", " ", "0", "2", ".">>, rest |-> <<" ", ".">>] }

\* titles, some with text that looks like an episode code of another family
TitleTexts == {<<"P", "i", "l", "o", "t">>, <<"T", "h", "e", " ", "E", "n", "d">>, <<"H", "o", "m", "e", "c", "o", "m", "i", "n", "g">>, <<"O", "n", "e", " ", "O", "f", " ", "7">>, <<"C", "o", "d", "e", "1", "3">>,
               <<"A", "p", "a", "c", "h", "e", "3", " ", "D", "o", "w", "n">>, <<"R", "o", "u", "t", "e", " ", "3", "x", "0", "5">>, <<"L", "i", "n", "e", " ", "-", " ", "7", ".", "L", "i", "v", "e">>, <<"L", "e", "v", "e", "l", " ", "-", " ", "5">>}

TitledNames == { TitleSeries \o st.text \o t \o <<".", "m", "k", "v">> : st \in CodeStyles, t \in TitleTexts }

\* get_episode_title is about to be called on some filename
TitleInit ==
    /\ filename \in TitledNames
    /\ anime_mode \in BOOLEAN
    /\ info = None
    /\ nfrag = 0
    /\ ppc = "build"
    /\ code_info = EpisodeInfo(0, 1)
    /\ code = <<>>
    /\ base_path = <<>>
    /\ options = RenameOptions(FALSE, FALSE, FALSE, FALSE, SHOW_SXXEXX_TITLE, <<>>)
    /\ series_name = TitleSeries
    /\ episode_info = None
    /\ title = <<>>
    /\ extension = <<>>
    /\ new_filename = <<>>
    /\ bpc = "new"
    /\ seen_titles = {}
    /\ vcall = NoCall
    /\ vhist = {}
    /\ ncalls = 0
    /\ disk = <<>>
    /\ disk0 = <<>>
    /\ case_sensitive = TRUE
    /\ video_files = <<>>
    /\ idx = 1
    /\ results = <<>>
    /\ ridx = 1
    /\ pc = "start"
    /\ exit_code = -1
    /\ title_part = <<>>
    /\ tech_tail = <<>>
    /\ cleaned = <<>>
    /\ recleaned = <<>>
    /\ cpc = "new"
    /\ args_format = NotGiven
    /\ year_free_name = <<>>

\* get_season_episode and, for a filename it parses, get_episode_title as
\* process_video_file calls them
GetEpisodeTitle ==
    /\ ppc = "build"
    /\ get_season_episode(filename, anime_mode) # None
    /\ info' = get_season_episode(filename, anime_mode)
    /\ title' = get_episode_title(filename, get_season_episode(filename, anime_mode), series_name, seen_titles).title
    /\ seen_titles' = get_episode_title(filename, get_season_episode(filename, anime_mode), series_name, seen_titles).seen
    /\ ppc' = "titled"
    /\ UNCHANGED <<filename, anime_mode, nfrag, base_path, options, series_name, episode_info, extension,
                   new_filename, bpc, codeVars, cleanVars, moreVars, validateVars, runVars>>

SpecTitle == TitleInit /\ [][GetEpisodeTitle]_vars

\* C20: when the code of the filename is the one get_season_episode found,
\* the fragment handed to clean_title is the filename without its extension
\* and without that code, and the title returned has every word of the
\* filename's title, also a word that looks like a code of another family.
OnlyDetectedPatternRemoved ==
    (ppc = "titled" /\ info = EpisodeInfo(1, 2)) =>
        \A st \in CodeStyles, t \in TitleTexts :
            filename = TitleSeries \o st.text \o t \o <<".", "m", "k", "v">> =>
                /\ title_fragment(filename) = TitleSeries \o st.rest \o t
                /\ title = Spaced(t)

\* ------------------------------------------------------------------------
\* The whole transformation of a release-style filename
\* ------------------------------------------------------------------------
\* the series as the filename has it and as the session has it
ReleaseSeries ==
    { [words |-> <<"B", "r", "e", "a", "k", "i", "n", "g", ".", "B", "a", "d">>, name |-> <<"B", "r", "e", "a", "k", "i", "n", "g", " ", "B", "a", "d", " ", "(", "2", "0", "0", "8", ")">>],
      [words |-> <<"L", "o", "s", "t">>, name |-> <<"L", "o", "s", "t", " ", "(", "2", "0", "0", "4", ")">>] }
ReleaseCodes == {<<"S", "0", "1", "E", "0", "1">>, <<"S", "0", "2", "E", "1", "5">>}
\* the title words, none for a filename without title
ReleaseTitles == {<<>>, <<"P", "i", "l", "o", "t">>, <<"T", "i", "m", "e", ".", "O", "f", ".", "T", "h", "e", ".", "A", "n", "g", "e", "l", "s">>, <<"W", "e", "b", "s", "t", "e", "r", ".", "C", "o", "m", "e", "s", ".", "H", "o", "m", "e">>}
\* technical tags and release group
ReleaseTags == {<<"7", "2", "0", "p", ".", "W", "E", "B", "-", "D", "L", ".", "x", "2", "6", "4", "-", "G", "R", "O", "U", "P">>, <<"H", "D", "T", "V", ".", "X", "v", "i", "D", "-", "F", "o", "V">>, <<"1", "0", "8", "0", "p", ".", "B", "l", "u", "R", "a", "y", "-", "L", "O", "L">>, <<"A", "A", "C", "-", "G", "R", "O", "U", "P">>}
ReleaseExtensions == {<<"m", "k", "v">>, <<"a", "v", "i">>}

ReleaseName(s, c, t, g, e) ==
    s.words \o <<".">> \o c \o <<".">> \o (IF t = <<>> THEN <<>> ELSE t \o <<".">>) \o g \o <<".">> \o e

\* a filename is about to be transformed
PipelineInit ==
    /\ series_name \in {s.name : s \in ReleaseSeries}
    /\ filename \in {ReleaseName(s, c, t, g, e) : s \in {x \in ReleaseSeries : x.name = series_name},
                                                 c \in ReleaseCodes, t \in ReleaseTitles,
                                                 g \in ReleaseTags, e \in ReleaseExtensions}
    /\ anime_mode = FALSE
    /\ info = None
    /\ nfrag = 0
    /\ ppc = "build"
    /\ code_info = EpisodeInfo(0, 1)
    /\ code = <<>>
    /\ base_path = <<>>
    /\ options = RenameOptions(FALSE, FALSE, FALSE, FALSE, SHOW_SXXEXX_TITLE, <<>>)
    /\ episode_info = None
    /\ title = <<>>
    /\ extension = <<>>
    /\ new_filename = <<>>
    /\ bpc = "new"
    /\ seen_titles = {}
    /\ vcall = NoCall
    /\ vhist = {}
    /\ ncalls = 0
    /\ disk = <<>>
    /\ disk0 = <<>>
    /\ case_sensitive = TRUE
    /\ video_files = <<>>
    /\ idx = 1
    /\ results = <<>>
    /\ ridx = 1
    /\ pc = "start"
    /\ exit_code = -1
    /\ title_part = <<>>
    /\ tech_tail = <<>>
    /\ cleaned = <<>>
    /\ recleaned = <<>>
    /\ cpc = "new"
    /\ args_format = NotGiven
    /\ year_free_name = <<>>

\* get_season_episode, get_episode_title and build_filename one after the
\* other, as process_video_file calls them
FullTransformation ==
    /\ ppc = "build"
    /\ \E ei \in {get_season_episode(filename, anime_mode)} :
          /\ ei # None
          /\ info' = ei
          /\ \E r \in {get_episode_title(filename, ei, series_name, seen_titles)} :
                /\ title' = r.title
                /\ seen_titles' = r.seen
                /\ extension' = lstrip(suffix(filename), {"."})
                /\ new_filename' = build_filename(ei, r.title, lstrip(suffix(filename), {"."}), series_name,
                                                  SHOW_YEAR_SXXEXX_TITLE, base_path)
    /\ ppc' = "transformed"
    /\ UNCHANGED <<filename, anime_mode, nfrag, base_path, options, series_name, episode_info, bpc,
                   codeVars, cleanVars, moreVars, validateVars, runVars>>

SpecPipeline == PipelineInit /\ [][FullTransformation]_vars

\* C21: the filename built from a release-style filename is the series
\* name, the episode code, the title words joined by single spaces when
\* there are any, and the extension.
ReleaseNameTransformed ==
    ppc = "transformed" =>
        \A s \in ReleaseSeries, c \in ReleaseCodes, t \in ReleaseTitles, g \in ReleaseTags, e \in ReleaseExtensions :
            (series_name = s.name /\ filename = ReleaseName(s, c, t, g, e)) =>
                new_filename = s.name \o DASH \o c \o (IF t = <<>> THEN <<>> ELSE DASH \o Spaced(t)) \o <<".">> \o e

\* ------------------------------------------------------------------------
\* A run of main on a folder of videos and the files next to them
\* ------------------------------------------------------------------------
\* episode 1 with a subtitle and a log, episode 10 with a subtitle
CompanionFiles ==
    { [path |-> Show \o <<<<"L", "o", "s", "t", ".", "S", "0", "1", "E", "1", ".", "m", "k", "v">>>>, id |-> 1, title |-> <<>>],
      [path |-> Show \o <<<<"L", "o", "s", "t", ".", "S", "0", "1", "E", "1", ".", "e", "n", ".", "s", "r", "t">>>>, id |-> 2, title |-> <<>>],
      [path |-> Show \o <<<<"L", "o", "s", "t", ".", "S", "0", "1", "E", "1", ".", "l", "o", "g">>>>, id |-> 3, title |-> <<>>],
      [path |-> Show \o <<<<"L", "o", "s", "t", ".", "S", "0", "1", "E", "1", "0", ".", "m", "k", "v">>>>, id |-> 4, title |-> <<>>],
      [path |-> Show \o <<<<"L", "o", "s", "t", ".", "S", "0", "1", "E", "1", "0", ".", "s", "r", "t">>>>, id |-> 5, title |-> <<>>] }

\* main is about to be called on some folder of these files
CompanionInit ==
    /\ filename = <<>>
    /\ anime_mode = FALSE
    /\ info = None
    /\ nfrag = 0
    /\ ppc = "build"
    /\ code_info = EpisodeInfo(0, 1)
    /\ code = <<>>
    /\ base_path = <<>>
    /\ options = RenameOptions(FALSE, FALSE, FALSE, FALSE, SHOW_SXXEXX_TITLE, <<>>)
    /\ series_name = <<>>
    /\ episode_info = None
    /\ title = <<>>
    /\ extension = <<>>
    /\ new_filename = <<>>
    /\ bpc = "new"
    /\ seen_titles = {}
    /\ vcall = NoCall
    /\ vhist = {}
    /\ ncalls = 0
    /\ case_sensitive \in BOOLEAN
    /\ disk \in {Tree(F) : F \in {G \in SUBSET CompanionFiles :
                                     Cardinality(G) <= MaxFiles /\ (case_sensitive \/ NoCaseClash(G))}}
    /\ disk0 = disk
    /\ video_files = <<>>
    /\ idx = 1
    /\ results = <<>>
    /\ ridx = 1
    /\ pc = "start"
    /\ exit_code = -1
    /\ title_part = <<>>
    /\ tech_tail = <<>>
    /\ cleaned = <<>>
    /\ recleaned = <<>>
    /\ cpc = "new"
    /\ args_format = NotGiven
    /\ year_free_name = <<>>

SpecCompanions == CompanionInit /\ [][Next]_vars

\* the file is in the folder of the video and its name is the base name of
\* the video followed by a suffix that starts with "."
SharesBaseName(path, video) ==
    /\ PathParent(path) = PathParent(video)
    /\ startswith(PathName(path), stem(PathName(video)) \o <<".">>)

\* C22: processing a video with success leaves every file untouched that is
\* not the video, not at the video's new path, and does not share the base
\* name of the video.
CompanionsShareBaseName ==
    [][(pc = "process" /\ idx' = idx + 1 /\ results'[Len(results')].success)
       => \A path \in DOMAIN disk :
             (/\ path # video_files[idx]
              /\ path \notin entries(disk, results'[Len(results')].new_path, case_sensitive)
              /\ ~SharesBaseName(path, video_files[idx]))
             => (path \in DOMAIN disk' /\ disk'[path] = disk[path])]_vars

\* ------------------------------------------------------------------------
\* detect_series_name on show folders and the folders inside them
\* ------------------------------------------------------------------------
\* folder names of shows, with the series name and the year-free series
\* name that belong to them
ShowFolders ==
    { [folder |-> <<"B", "r", "e", "a", "k", "i", "n", "g", " ", "B", "a", "d", " ", "(", "2", "0", "0", "8", ")">>, name |-> <<"B", "r", "e", "a", "k", "i", "n", "g", " ", "B", "a", "d", " ", "(", "2", "0", "0", "8", ")">>, no_year |-> <<"B", "r", "e", "a", "k", "i", "n", "g", " ", "B", "a", "d">>],
      [folder |-> <<"L", "o", "s", "t">>, name |-> <<"L", "o", "s", "t">>, no_year |-> <<"L", "o", "s", "t">>],
      [folder |-> <<"D", "r", ".", "W", "h", "o", " ", "[", "2", "0", "0", "5", "]">>, name |-> <<"D", "r", " ", "W", "h", "o", " ", "[", "2", "0", "0", "5", "]">>, no_year |-> <<"D", "r", " ", "W", "h", "o">>],
      [folder |-> <<"M", "A", "S", "H", " ", "(", "1", "9", "7", "2", ")">>, name |-> <<"M", "A", "S", "H", " ", "(", "1", "9", "7", "2", ")">>, no_year |-> <<"M", "A", "S", "H">>],
      [folder |-> <<"T", "h", "e", "_", "O", "f", "f", "i", "c", "e">>, name |-> <<"T", "h", "e", " ", "O", "f", "f", "i", "c", "e">>, no_year |-> <<"T", "h", "e", " ", "O", "f", "f", "i", "c", "e">>],
      [folder |-> <<"S", "p", "a", "c", "e", " ", "1", "9", "9", "9", " ", "(", "1", "9", "7", "5", ")">>, name |-> <<"S", "p", "a", "c", "e", " ", "1", "9", "9", "9", " ", "(", "1", "9", "7", "5", ")">>, no_year |-> <<"S", "p", "a", "c", "e", " ", "1", "9", "9", "9">>],
      [folder |-> <<"S", "p", "e", "c", "i", "a", "l", " ", "U", "n", "i", "t", " ", "2">>, name |-> <<"S", "p", "e", "c", "i", "a", "l", " ", "U", "n", "i", "t", " ", "2">>, no_year |-> <<"S", "p", "e", "c", "i", "a", "l", " ", "U", "n", "i", "t", " ", "2">>],
      [folder |-> <<"S", "t", "a", "r", "g", "a", "t", "e", " ", "S", "G", "1">>, name |-> <<"S", "t", "a", "r", "g", "a", "t", "e", " ", "S", "G", "1">>, no_year |-> <<"S", "t", "a", "r", "g", "a", "t", "e", " ", "S", "G", "1">>],
      [folder |-> <<"D", "a", "l", "e", "k", "s", " ", "(", "2", "1", "5", "0", ")">>, name |-> <<"D", "a", "l", "e", "k", "s", " ", "(", "2", "1", "5", "0", ")">>, no_year |-> <<"D", "a", "l", "e", "k", "s">>],
      [folder |-> <<"D", "o", "c", "t", "o", "r", " ", "W", "h", "o", " ", "(", "2", "0", "0", "5", ")", " ", "C", "o", "m", "p", "l", "e", "t", "e">>, name |-> <<"D", "o", "c", "t", "o", "r", " ", "W", "h", "o", " ", "(", "2", "0", "0", "5", ")", " ", "C", "o", "m", "p", "l", "e", "t", "e">>, no_year |-> <<"D", "o", "c", "t", "o", "r", " ", "W", "h", "o">>] }

\* the show folder itself, or a season or specials folder inside it
SeasonFolders == {<<>>, <<<<"S", "e", "a", "s", "o", "n", " ", "1">>>>, <<<<"S", "e", "a", "s", "o", "n", " ", "1", "2">>>>, <<<<"s", "e", "a", "s", "o", "n", "2">>>>, <<<<"S", "3">>>>,
                  <<<<"S", "p", "e", "c", "i", "a", "l", "s">>>>, <<<<"S", "p", "e", "c", "i", "a", "l">>>>}

\* the series name of some folder is about to be detected
SeriesInit ==
    /\ filename = <<>>
    /\ anime_mode = FALSE
    /\ info = None
    /\ nfrag = 0
    /\ ppc = "build"
    /\ code_info = EpisodeInfo(0, 1)
    /\ code = <<>>
    /\ base_path \in {<<<<"t", "v">>, f.folder>> \o inner : f \in ShowFolders, inner \in SeasonFolders}
    /\ options = RenameOptions(FALSE, FALSE, FALSE, FALSE, SHOW_SXXEXX_TITLE, <<>>)
    /\ series_name = <<>>
    /\ episode_info = None
    /\ title = <<>>
    /\ extension = <<>>
    /\ new_filename = <<>>
    /\ bpc = "new"
    /\ seen_titles = {}
    /\ vcall = NoCall
    /\ vhist = {}
    /\ ncalls = 0
    /\ disk = <<>>
    /\ disk0 = <<>>
    /\ case_sensitive = TRUE
    /\ video_files = <<>>
    /\ idx = 1
    /\ results = <<>>
    /\ ridx = 1
    /\ pc = "start"
    /\ exit_code = -1
    /\ title_part = <<>>
    /\ tech_tail = <<>>
    /\ cleaned = <<>>
    /\ recleaned = <<>>
    /\ cpc = "new"
    /\ args_format = NotGiven
    /\ year_free_name = <<>>

\* detect_series_name and detect_series_name_no_year on the folder
DetectSeriesName ==
    /\ bpc = "new"
    /\ series_name' = detect_series_name(base_path)
    /\ year_free_name' = detect_series_name_no_year(base_path)
    /\ bpc' = "detected"
    /\ UNCHANGED <<base_path, options, episode_info, title, extension, new_filename, args_format,
                   parseVars, codeVars, cleanVars, seen_titles, validateVars, runVars>>

SpecSeries == SeriesInit /\ [][DetectSeriesName]_vars

\* C23 (amended): for the show folder, and for a Season, S, Specials or
\* Special folder inside it, detect_series_name returns the series name of
\* the show folder, and detect_series_name_no_year returns that name cut at
\* its first parenthesized 19xx or 2xxx year or bracketed 4-digit number:
\* the year and everything after it are removed.
SeriesNameOneLevelUp ==
    bpc = "detected" =>
        \A f \in ShowFolders :
            base_path[2] = f.folder => (series_name = f.name /\ year_free_name = f.no_year)

\* C23 witness: the name was detected from a Specials folder inside a show
\* folder with a year
SeriesNameOneLevelUpWitness ==
    /\ bpc = "detected"
    /\ base_path = <<<<"t", "v">>, <<"B", "r", "e", "a", "k", "i", "n", "g", " ", "B", "a", "d", " ", "(", "2", "0", "0", "8", ")">>, <<"S", "p", "e", "c", "i", "a", "l">>>>
    /\ series_name = <<"B", "r", "e", "a", "k", "i", "n", "g", " ", "B", "a", "d", " ", "(", "2", "0", "0", "8", ")">>
    /\ year_free_name = <<"B", "r", "e", "a", "k", "i", "n", "g", " ", "B", "a", "d">>

\* a name without the parenthesized 19xx or 20xx year, or the bracketed
\* 4-digit year, that ends it
TrailingYearRemoved(name) ==
    IF /\ Len(name) >= 6
       /\ \A k \in 1..4 : name[Len(name) - 5 + k] \in Digit
       /\ \/ /\ name[Len(name) - 5] = "(" /\ name[Len(name)] = ")"
             /\ SubSeq(name, Len(name) - 4, Len(name) - 3) \in {<<"1", "9">>, <<"2", "0">>}
          \/ name[Len(name) - 5] = "[" /\ name[Len(name)] = "]"
    THEN strip(SubSeq(name, 1, Len(name) - 6))
    ELSE name

\* C23 as stated: detect_series_name_no_year returns the detected series
\* name with only a trailing parenthesized 19xx/20xx year or bracketed
\* 4-digit year removed.
SeriesNameTrailingYearOnly ==
    bpc = "detected" => year_free_name = TrailingYearRemoved(series_name)

\* C24: main returns a non-zero exit code when the target directory does not
\* exist or a file's result is an error, and 0 only when there was no error.
ExitCodeReflectsErrors ==
    pc = "done" =>
        /\ (\E k \in DOMAIN results : ~results[k].success) => exit_code # 0
        /\ exit_code = 0 => (base_path \in Directories /\ \A k \in DOMAIN results : results[k].success)
        /\ base_path \notin Directories => exit_code # 0

\* ------------------------------------------------------------------------
\* A run of main on fansub names and on a Specials folder
\* ------------------------------------------------------------------------
\* two fansub names of which one carries a checksum that begins with E1,
\* and two specials that come from different seasons
OrderFiles ==
    { [path |-> Show \o <<<<"L", "o", "s", "t", " ", "-", " ", "0", "5", " ", "(", "R", "e", "c", "a", "p", ")", ".", "m", "k", "v">>>>, id |-> 1, title |-> <<>>],
      [path |-> Show \o <<<<"L", "o", "s", "t", " ", "-", " ", "0", "9", " ", "(", "R", "e", "c", "a", "p", ")", " ", "[", "E", "1", "A", "2", "B", "3", "C", "4", "]", ".", "m", "k", "v">>>>, id |-> 2, title |-> <<>>],
      [path |-> Show \o <<<<"L", "o", "s", "t", " ", "-", " ", "0", "2", ".", "R", "e", "c", "a", "p", ".", "m", "k", "v">>>>, id |-> 3, title |-> <<>>],
      [path |-> Specials \o <<<<"L", "o", "s", "t", ".", "S", "0", "2", "E", "0", "1", ".", "R", "e", "c", "a", "p", ".", "m", "k", "v">>>>, id |-> 4, title |-> <<>>],
      [path |-> Specials \o <<<<"L", "o", "s", "t", ".", "S", "0", "1", "E", "0", "5", ".", "R", "e", "c", "a", "p", ".", "m", "k", "v">>>>, id |-> 5, title |-> <<>>] }

\* main is about to be called on some folder of these files
OrderInit ==
    /\ filename = <<>>
    /\ anime_mode = FALSE
    /\ info = None
    /\ nfrag = 0
    /\ ppc = "build"
    /\ code_info = EpisodeInfo(0, 1)
    /\ code = <<>>
    /\ base_path = <<>>
    /\ options = RenameOptions(FALSE, FALSE, FALSE, FALSE, SHOW_SXXEXX_TITLE, <<>>)
    /\ series_name = <<>>
    /\ episode_info = None
    /\ title = <<>>
    /\ extension = <<>>
    /\ new_filename = <<>>
    /\ bpc = "new"
    /\ seen_titles = {}
    /\ vcall = NoCall
    /\ vhist = {}
    /\ ncalls = 0
    /\ case_sensitive \in BOOLEAN
    /\ disk \in {Tree(F) : F \in {G \in SUBSET OrderFiles :
                                     Cardinality(G) <= MaxFiles /\ (case_sensitive \/ NoCaseClash(G))}}
    /\ disk0 = disk
    /\ video_files = <<>>
    /\ idx = 1
    /\ results = <<>>
    /\ ridx = 1
    /\ pc = "start"
    /\ exit_code = -1
    /\ title_part = <<>>
    /\ tech_tail = <<>>
    /\ cleaned = <<>>
    /\ recleaned = <<>>
    /\ cpc = "new"
    /\ args_format = NotGiven
    /\ year_free_name = <<>>

SpecOrder == OrderInit /\ [][Next]_vars

\* the season and episode the session gives a file, (999, 999) if it finds none
AssignedNumbers(path, anime) ==
    IF get_season_episode(PathName(path), anime) = None
    THEN EpisodeInfo(FALLBACK, FALLBACK)
    ELSE specials_override(path, get_season_episode(PathName(path), anime))

\* C25: within one directory the videos are processed in ascending order of
\* the (season, episode) numbers the run assigns to them, also in anime mode.
ProcessingOrder ==
    (pc \in {"process", "print", "done"} /\ base_path \in Directories) =>
        \A i, j \in DOMAIN video_files :
            (i < j /\ PathParent(video_files[i]) = PathParent(video_files[j])) =>
                LET a == AssignedNumbers(video_files[i], options.anime_mode)
                    b == AssignedNumbers(video_files[j], options.anime_mode)
                IN a.season < b.season \/ (a.season = b.season /\ a.episode <= b.episode)

\* ------------------------------------------------------------------------
\* protect_ellipsis and restore_ellipsis on text with dots and with the
\* words of the placeholder
\* ------------------------------------------------------------------------
EllipsisPieces == {<<>>, <<"W", "a", "i", "t">>, <<".", ".", ".">>, <<".">>, <<" ">>, ELLIPSIS_PLACEHOLDER}

\* texts of up to three pieces
EllipsisTexts == {a \o b \o c : a \in EllipsisPieces, b \in EllipsisPieces, c \in EllipsisPieces}

\* some text is about to be protected, or cleaned
EllipsisInit ==
    /\ filename = <<>>
    /\ anime_mode = FALSE
    /\ info = None
    /\ nfrag = 0
    /\ ppc = "build"
    /\ code_info = EpisodeInfo(0, 1)
    /\ code = <<>>
    /\ base_path = <<>>
    /\ options = RenameOptions(FALSE, FALSE, FALSE, FALSE, SHOW_SXXEXX_TITLE, <<>>)
    /\ series_name = <<>>
    /\ episode_info = None
    /\ title = <<>>
    /\ extension = <<>>
    /\ new_filename = <<>>
    /\ bpc = "new"
    /\ seen_titles = {}
    /\ vcall = NoCall
    /\ vhist = {}
    /\ ncalls = 0
    /\ disk = <<>>
    /\ disk0 = <<>>
    /\ case_sensitive = TRUE
    /\ video_files = <<>>
    /\ idx = 1
    /\ results = <<>>
    /\ ridx = 1
    /\ pc = "start"
    /\ exit_code = -1
    /\ title_part \in EllipsisTexts
    /\ tech_tail = <<>>
    /\ cleaned = <<>>
    /\ recleaned = <<>>
    /\ cpc = "new"
    /\ args_format = NotGiven
    /\ year_free_name = <<>>

\* protect_ellipsis on the text
ProtectEllipsis ==
    /\ cpc = "new"
    /\ cleaned' = protect_ellipsis(title_part)
    /\ cpc' = "protected"
    /\ UNCHANGED <<title_part, tech_tail, recleaned, moreVars, parseVars, codeVars, buildVars, seen_titles, validateVars, runVars>>

\* restore_ellipsis on the protected text
RestoreEllipsis ==
    /\ cpc = "protected"
    /\ recleaned' = restore_ellipsis(cleaned)
    /\ cpc' = "restored"
    /\ UNCHANGED <<title_part, tech_tail, cleaned, moreVars, parseVars, codeVars, buildVars, seen_titles, validateVars, runVars>>

EllipsisNext == ProtectEllipsis \/ RestoreEllipsis \/ CleanTitle

SpecEllipsis == EllipsisInit /\ [][EllipsisNext]_vars

\* C26: restore_ellipsis(protect_ellipsis(x)) = x, and clean_title puts out
\* no "..." that was not in its input.
EllipsisRoundTrip ==
    /\ cpc = "restored" => recleaned = title_part
    /\ cpc = "cleaned" => (contains(cleaned, <<".", ".", ".">>) => contains(title_part, <<".", ".", ".">>))

\* ------------------------------------------------------------------------
\* The dry run and the run that renames
\* ------------------------------------------------------------------------
\* the old path, new path and success of each result
Outcomes(rs) == [k \in DOMAIN rs |-> <<rs[k].old_path, rs[k].new_path, rs[k].success>>]

\* the results that process_directory can return for the videos from the
\* k-th on when it renames, with the options of the session otherwise
RECURSIVE RealRuns(_, _, _, _)
RealRuns(k, fs, seen, acc) ==
    IF k > Len(video_files) THEN {acc}
    ELSE UNION {RealRuns(k + 1, out.disk, out.seen, Append(acc, out.result)) :
                   out \in process_video_file(video_files[k], [options EXCEPT !.dry_run = FALSE],
                                              series_name, base_path, seen, fs, case_sensitive)}

\* C27: the results of a dry run are, in old path, new path and success, the
\* results of a run with the same options on the same directory that renames.
DryRunPredictsRealRun ==
    (pc = "done" /\ base_path \in Directories /\ options.dry_run) =>
        Outcomes(results) \in {Outcomes(rs) : rs \in RealRuns(1, disk0, {}, <<>>)}

\* C28: a video whose rename fails leaves the directory as it was before
\* the call: the source at its old path, no file under a temporary name,
\* the destination unchanged.
FailedRenameAtomic ==
    [][(pc = "process" /\ idx' = idx + 1 /\ ~results'[Len(results')].success) => disk' = disk]_vars

\* ------------------------------------------------------------------------
\* main: from the command line to the options of the session
\* ------------------------------------------------------------------------
\* args.format after parse_args: the value of --format, or the default of
\* the parser when the option is absent
parsed_format(given) == IF given = NotGiven THEN SHOW_SXXEXX_TITLE ELSE given

\* main is about to be called with or without --format
OptionsInit ==
    /\ filename = <<>>
    /\ anime_mode = FALSE
    /\ info = None
    /\ nfrag = 0
    /\ ppc = "build"
    /\ code_info = EpisodeInfo(0, 1)
    /\ code = <<>>
    /\ base_path = <<>>
    /\ options = RenameOptions(FALSE, FALSE, FALSE, FALSE, SHOW_SXXEXX_TITLE, <<>>)
    /\ series_name = <<>>
    /\ episode_info = None
    /\ title = <<>>
    /\ extension = <<>>
    /\ new_filename = <<>>
    /\ bpc = "new"
    /\ seen_titles = {}
    /\ vcall = NoCall
    /\ vhist = {}
    /\ ncalls = 0
    /\ disk = <<>>
    /\ disk0 = <<>>
    /\ case_sensitive = TRUE
    /\ video_files = <<>>
    /\ idx = 1
    /\ results = <<>>
    /\ ridx = 1
    /\ pc = "args"
    /\ exit_code = -1
    /\ title_part = <<>>
    /\ tech_tail = <<>>
    /\ cleaned = <<>>
    /\ recleaned = <<>>
    /\ cpc = "new"
    /\ args_format \in all_formats \cup {NotGiven}
    /\ year_free_name = <<>>

\* main, from parse_args to RenameOptions, on an existing directory
MainOptions ==
    /\ pc = "args"
    /\ \E dry_run \in BOOLEAN, force \in BOOLEAN, anime \in BOOLEAN, deep_clean \in BOOLEAN,
          series \in {<<>>, <<"L", "o", "s", "t">>} :
          options' = main_options(dry_run, force, anime, deep_clean, parsed_format(args_format), series)
    /\ pc' = "options"
    /\ UNCHANGED <<base_path, series_name, episode_info, title, extension, new_filename, bpc,
                   seen_titles, results, video_files, idx, ridx, disk, disk0, case_sensitive, exit_code,
                   parseVars, codeVars, cleanVars, moreVars, validateVars>>

SpecOptions == OptionsInit /\ [][MainOptions]_vars

\* C29: a format given with --format is the format of the session whatever
\* the other flags are; without --format the format is 'Show - SxxExx' with
\* --anime and the default otherwise.
ExplicitFormatUsed ==
    pc = "options" =>
        IF args_format # NotGiven
        THEN options.output_format = args_format
        ELSE options.output_format = (IF options.anime_mode THEN SHOW_SXXEXX ELSE SHOW_SXXEXX_TITLE)

\* ------------------------------------------------------------------------
\* Companions and the outcome of the video
\* ------------------------------------------------------------------------
\* the path rename_companions gives the companion path of the video
CompanionTarget(path, video, new_video) ==
    PathParent(video) \o <<stem(PathName(new_video))
                           \o SubSeq(PathName(path), Len(stem(PathName(video))) + 1, Len(PathName(path)))>>

\* the companion has the new base name after the step
Follows(path, video, new_video) ==
    /\ CompanionTarget(path, video, new_video) \in DOMAIN disk'
    /\ disk'[CompanionTarget(path, video, new_video)].id = disk[path].id

\* the companion is after the step where and what it was before
LeftAlone(path) == path \in DOMAIN disk' /\ disk'[path] = disk[path]

====
